---- MODULE Spec2Model ----
(***************************************************************************)
(* State-machine model of syntia-term: the editor tab manager              *)
(* (TabbedTextArea), the preview panel with its pinned terminal tab        *)
(* (TabbedRightPanel), the application handlers (Syntia) and the two       *)
(* splitters (VerticalSplitter, HorizontalSplitter).                       *)
(*                                                                         *)
(* A Python dict is a sequence of [id, path] entries in insertion order.   *)
(* A textual TabbedContent is a sequence of panes plus the `active`        *)
(* reactive ("" when there is no tab).  Handlers run to completion on the  *)
(* single UI event loop, so every handler is one atomic action.            *)
(***************************************************************************)
EXTENDS Integers, Sequences, FiniteSets, TLC

VARIABLES
    editor,       \* TabbedTextArea: open_files, the TabbedContent's panes and active id
    right_panel,  \* TabbedRightPanel: terminal, open_files, panes and active id
    disk,         \* the text of every file
    assigned,     \* history: every tab id created so far in the session
    crashed,      \* an exception left a handler and ended the application
    app,          \* Syntia: terminal_initialized, right_panel_collapsed, ...
    splitters,    \* the vertical (v) and the horizontal (h) splitter with their panes
    mouse_capture, \* the widget capture_mouse gave the pointer to: "v", "h" or "none"
    last,         \* history: the last operation, its arguments and its result
    pre           \* history: the widgets as they were before the last operation

vars == <<editor, right_panel, disk, assigned, crashed, app, splitters, mouse_capture,
          last, pre>>

splitvars == <<splitters, mouse_capture>>

----------------------------------------------------------------------------
(* Bounds of the model.                                                    *)

\* number of distinct file paths the file tree offers
NumPaths == 3

\* number of distinct non-empty file contents
NumContents == 2

\* container widths: one too narrow for both bounds of a drag, one wide
NarrowWidth == 20

WideWidth == 48

\* container heights: one too low for both bounds of a drag, one high
NarrowHeight == 12

WideHeight == 36

\* pointer coordinates are the multiples of CoordStep up to CoordStep * MaxSteps
CoordStep == 12

MaxSteps == 2

\* how many files the tree offers in SpecPinned
NumPinnedPaths == 2

\* how many files the tree offers in SpecSave
NumSavePaths == 1
NumClosePaths == 2
NumKeyPaths == 1
NumOtherKeys == 1
MaxQueue == 2
\* extensions offered to the language binding, and buffers open at once
NumLangSuffixes == 16
MaxLangTabs == 2
\* tree files offered while previews are mirrored
NumMirrorPaths == 2
\* tree files offered while titles are pressed
NumPressPaths == 2
\* character keys typed into the focused shell
NumQueueKeys == 2

----------------------------------------------------------------------------
(* Paths and contents.                                                     *)

\* pathlib.Path values: name = stem + suffix
AllPaths ==
    << [stem |-> "a", suffix |-> ".md"],
       [stem |-> "b", suffix |-> ".MD"],
       [stem |-> "main", suffix |-> ".py"],
       [stem |-> "notes", suffix |-> ".txt"],
       [stem |-> "c", suffix |-> ".md"],
       [stem |-> "d", suffix |-> ".json"] >>

Paths == { AllPaths[i] : i \in 1..NumPaths }

\* a directory of the file tree: Path.is_file() is false for it
Directory == [stem |-> "docs", suffix |-> ""]

IsFile(path) == path \in Paths

\* Python None where a path is expected
NoPath == [stem |-> "", suffix |-> ""]

AllContents == << "# one", "# two", "# three", "# four" >>

Contents == { AllContents[i] : i \in 1..NumContents }

\* what the disk holds for a file whose bytes are not valid text
Undecodable == "<undecodable>"

\* The disk at start: every file holds the same text, and the second file
\* is either text too or undecodable.
InitDisks ==
    { [file_path \in Paths |-> AllContents[1]],
      [file_path \in Paths |-> IF file_path = AllPaths[2] THEN Undecodable
                                ELSE AllContents[1]] }

\* file_path.read_text(): the file's text, or an exception when the file
\* does not exist or the bytes on disk do not decode
read_text(dsk, file_path) ==
    IF file_path \notin DOMAIN dsk \/ dsk[file_path] = Undecodable
    THEN [raised |-> TRUE, text |-> ""]
    ELSE [raised |-> FALSE, text |-> dsk[file_path]]

\* Path.name
Name(file_path) == file_path.stem \o file_path.suffix

\* str.lower() on the suffixes that occur
Lower(s) == IF s = ".MD" THEN ".md" ELSE s

\* file_path.suffix.lower() == ".md"
IsMarkdown(file_path) == Lower(file_path.suffix) = ".md"

----------------------------------------------------------------------------
(* Python dict (insertion ordered) as a sequence of [id, path] entries.    *)

DictKeys(d) == { d[i].id : i \in 1..Len(d) }

DictValues(d) == { d[i].path : i \in 1..Len(d) }

DictHas(d, k) == \E i \in 1..Len(d) : d[i].id = k

\* d[k] for a key that is present
DictGet(d, k) == d[CHOOSE i \in 1..Len(d) : d[i].id = k].path

\* d[k] = v : overwrite in place, or append a new entry
DictSet(d, k, v) ==
    IF DictHas(d, k)
    THEN [i \in 1..Len(d) |-> IF d[i].id = k THEN [id |-> k, path |-> v] ELSE d[i]]
    ELSE Append(d, [id |-> k, path |-> v])

\* del d[k]
DictDel(d, k) == SelectSeq(d, LAMBDA e : e.id # k)

\* the first key whose value is file_path ("" if there is none):
\* for tab_id, existing_path in d.items(): if existing_path == file_path
FindPath(d, file_path) ==
    IF file_path \in DictValues(d)
    THEN LET i == CHOOSE j \in 1..Len(d) :
                     /\ d[j].path = file_path
                     /\ \A k \in 1..(j - 1) : d[k].path # file_path
         IN d[i].id
    ELSE ""

----------------------------------------------------------------------------
(* textual.widgets.TabbedContent: panes in tab order and the active id.    *)

PaneIds(panes) == { panes[i].id : i \in 1..Len(panes) }

PaneIndex(panes, id) == CHOOSE i \in 1..Len(panes) : panes[i].id = id

\* TabbedContent.add_pane: mounting a widget whose id is already mounted
\* raises DuplicateIds and mounts nothing
AddPaneRaises(panes, pane) == pane.id \in PaneIds(panes)

AddPane(panes, pane) == Append(panes, pane)

\* The active id left by TabbedContent.remove_pane: removing the active
\* tab activates its right neighbour, else its left neighbour, else "".
ActiveAfterRemove(panes, active, id) ==
    IF id \notin PaneIds(panes) THEN active
    ELSE IF Len(panes) = 1 THEN ""
    ELSE IF active # id THEN active
    ELSE LET i == PaneIndex(panes, id)
         IN IF i < Len(panes) THEN panes[i + 1].id ELSE panes[i - 1].id

RemovePane(panes, id) == SelectSeq(panes, LAMBDA p : p.id # id)

\* pane content replaced in place (TextArea.text / MarkdownViewer.update)
SetPaneText(panes, id, text) ==
    [i \in 1..Len(panes) |->
        IF panes[i].id = id THEN [panes[i] EXCEPT !.text = text] ELSE panes[i]]

PaneText(panes, id) == panes[PaneIndex(panes, id)].text

----------------------------------------------------------------------------
(* TabbedTextArea (the editor tab manager).                                *)

\* add_language_support comparing the lower-cased suffix
add_language_support_CaseFold(file_path) ==
    CASE Lower(file_path.suffix) = ".py" -> "python"
      [] Lower(file_path.suffix) = ".md" -> "markdown"
      [] Lower(file_path.suffix) \in {".js", ".jsx"} -> "javascript"
      [] Lower(file_path.suffix) \in {".ts", ".tsx"} -> "typescript"
      [] Lower(file_path.suffix) = ".json" -> "json"
      [] Lower(file_path.suffix) \in {".html", ".htm"} -> "html"
      [] Lower(file_path.suffix) = ".css" -> "css"
      [] Lower(file_path.suffix) = ".toml" -> "toml"
      [] OTHER -> "none"

\* add_language_support: the language tag for a path's suffix; "none" is
\* the TextArea default (language=None), left untouched by every miss
add_language_support(file_path) ==
    CASE file_path.suffix = ".py" -> "python"
      [] file_path.suffix = ".md" -> "markdown"
      [] file_path.suffix \in {".js", ".jsx"} -> "javascript"
      [] file_path.suffix \in {".ts", ".tsx"} -> "typescript"
      [] file_path.suffix = ".json" -> "json"
      [] file_path.suffix \in {".html", ".htm"} -> "html"
      [] file_path.suffix = ".css" -> "css"
      [] file_path.suffix = ".toml" -> "toml"
      [] OTHER -> "none"

\* f"tab_{len(self.open_files)}"
NewTabId(open_files) == "tab_" \o ToString(Len(open_files))

\* add_file_tab without the "already open" lookup
add_file_tab_NoLookup(self, file_path, content) ==
    LET tab_id == NewTabId(self.open_files)
        tab_pane == [id |-> tab_id, title |-> Name(file_path), text |-> content,
                     language |-> add_language_support(file_path)]
    IN IF AddPaneRaises(self.panes, tab_pane)
       THEN [self |-> self, ret |-> "", raised |-> TRUE]
       ELSE [self |-> [open_files |-> DictSet(self.open_files, tab_id, file_path),
                       panes |-> AddPane(self.panes, tab_pane),
                       active |-> tab_id],
             ret |-> tab_id, raised |-> FALSE]

\* add_file_tab returning the existing tab without switching to it
add_file_tab_NoActivate(self, file_path, content) ==
    LET found == FindPath(self.open_files, file_path)
    IN IF found # ""
       THEN [self |-> self, ret |-> found, raised |-> FALSE]
       ELSE add_file_tab_NoLookup(self, file_path, content)

\* add_file_tab(file_path); content is what read_text() gave ("" when it
\* raised).  Result: the new widget state, the return value and whether
\* DuplicateIds was raised out of add_pane.
add_file_tab(self, file_path, content) ==
    LET found == FindPath(self.open_files, file_path)
        tab_id == NewTabId(self.open_files)
        tab_pane == [id |-> tab_id, title |-> Name(file_path), text |-> content,
                     language |-> add_language_support(file_path)]
    IN IF found # ""
       THEN [self |-> [self EXCEPT !.active = found], ret |-> found, raised |-> FALSE]
       ELSE IF AddPaneRaises(self.panes, tab_pane)
       THEN [self |-> self, ret |-> "", raised |-> TRUE]
       ELSE [self |-> [open_files |-> DictSet(self.open_files, tab_id, file_path),
                       panes |-> AddPane(self.panes, tab_pane),
                       active |-> tab_id],
             ret |-> tab_id, raised |-> FALSE]

\* get_active_file_path: NoPath stands for None
get_active_file_path(self) ==
    IF self.active = "" \/ ~DictHas(self.open_files, self.active)
    THEN NoPath
    ELSE DictGet(self.open_files, self.active)

----------------------------------------------------------------------------
(* TabbedRightPanel (the preview panel).                                   *)

terminal_tab_id == "terminal_tab"

\* the preview pane's title f"📖 {file_name}"; every code point of an emoji
\* prefix is written "@", so that Len is Python's len
PreviewTitle(file_path) == "@ " \o Name(file_path)

\* the pinned pane's title "🖥️ Terminal" (two code points, a space, the word)
TerminalTitle == "@@ Terminal"

\* f"preview_tab_{len(self.open_files)}"
NewPreviewTabId(open_files) == "preview_tab_" \o ToString(Len(open_files))

\* add_markdown_tab(file_path, content).  Result: the new widget state, the
\* return value and whether DuplicateIds was raised out of add_pane.
add_markdown_tab(self, file_path, content) ==
    LET found == FindPath(self.open_files, file_path)
        tab_id == NewPreviewTabId(self.open_files)
        tab_pane == [id |-> tab_id, title |-> PreviewTitle(file_path), text |-> content]
    IN IF found # ""
       THEN [self |-> [self EXCEPT !.panes = SetPaneText(self.panes, found, content),
                                   !.active = found],
             ret |-> found, raised |-> FALSE]
       ELSE IF AddPaneRaises(self.panes, tab_pane)
       THEN [self |-> self, ret |-> "", raised |-> TRUE]
       ELSE [self |-> [self EXCEPT !.open_files = DictSet(self.open_files, tab_id, file_path),
                                   !.panes = AddPane(self.panes, tab_pane),
                                   !.active = tab_id],
             ret |-> tab_id, raised |-> FALSE]

\* update_markdown_tab that opens a tab for a path that has none
update_markdown_tab_Upsert(self, file_path, content) ==
    LET tab_id == FindPath(self.open_files, file_path)
    IN IF tab_id = ""
       THEN [self |-> add_markdown_tab(self, file_path, content).self, ok |-> TRUE]
       ELSE [self |-> [self EXCEPT !.panes = SetPaneText(self.panes, tab_id, content)],
             ok |-> TRUE]

\* update_markdown_tab(file_path, content)
update_markdown_tab(self, file_path, content) ==
    LET tab_id == FindPath(self.open_files, file_path)
    IN IF tab_id = ""
       THEN [self |-> self, ok |-> FALSE]
       ELSE [self |-> [self EXCEPT !.panes = SetPaneText(self.panes, tab_id, content)],
             ok |-> TRUE]

\* self.tabbed_content.remove_pane(tab_id); del self.open_files[tab_id]
RemoveTab(self, tab_id) ==
    [self EXCEPT !.active = ActiveAfterRemove(self.panes, self.active, tab_id),
                 !.panes = RemovePane(self.panes, tab_id),
                 !.open_files = DictDel(self.open_files, tab_id)]

\* remove_markdown_tab that removes the newest preview when the path is bound
remove_markdown_tab_Newest(self, file_path) ==
    LET tab_id == FindPath(self.open_files, file_path)
    IN IF tab_id = ""
       THEN [self |-> self, ok |-> FALSE]
       ELSE [self |-> RemoveTab(self, self.open_files[Len(self.open_files)].id),
             ok |-> TRUE]

\* remove_markdown_tab(file_path)
remove_markdown_tab(self, file_path) ==
    LET tab_id == FindPath(self.open_files, file_path)
    IN IF tab_id = ""
       THEN [self |-> self, ok |-> FALSE]
       ELSE [self |-> RemoveTab(self, tab_id), ok |-> TRUE]

\* clear_all_tabs: remove_pane for every key in order, then open_files.clear()
RECURSIVE RemoveAllPanes(_, _)
RemoveAllPanes(self, keys) ==
    IF keys = <<>> THEN self
    ELSE RemoveAllPanes(
             [self EXCEPT !.active = ActiveAfterRemove(self.panes, self.active, Head(keys).id),
                          !.panes = RemovePane(self.panes, Head(keys).id)],
             Tail(keys))

clear_all_tabs(self) ==
    [RemoveAllPanes(self, self.open_files) EXCEPT !.open_files = <<>>]

\* close_active_tab that removes whatever tab is active
close_active_tab_NoGuard(self) ==
    IF self.active = ""
    THEN [self |-> self, ok |-> FALSE, notes |-> <<>>]
    ELSE [self |-> RemoveTab(self, self.active), ok |-> TRUE, notes |-> <<>>]

\* close_active_tab
close_active_tab(self) ==
    IF self.active = ""
    THEN [self |-> self, ok |-> FALSE, notes |-> <<>>]
    ELSE IF self.active = terminal_tab_id
    THEN [self |-> self, ok |-> FALSE, notes |-> << "Terminal tab cannot be closed" >>]
    ELSE IF DictHas(self.open_files, self.active)
    THEN [self |-> RemoveTab(self, self.active), ok |-> TRUE, notes |-> <<>>]
    ELSE [self |-> self, ok |-> FALSE, notes |-> <<>>]

\* close_tab_by_id(tab_id); the refusal for the terminal tab notifies nobody
close_tab_by_id(self, tab_id) ==
    IF tab_id = terminal_tab_id
    THEN [self |-> self, ok |-> FALSE, notes |-> <<>>]
    ELSE IF DictHas(self.open_files, tab_id)
    THEN [self |-> RemoveTab(self, tab_id), ok |-> TRUE, notes |-> <<>>]
    ELSE [self |-> self, ok |-> FALSE, notes |-> <<>>]

\* The walk over the preview tabs in _get_tab_at_position: the first entry
\* from index i on whose interval [current_x, current_x + width) holds x.
RECURSIVE WalkPreviewTabs(_, _, _, _)
WalkPreviewTabs(open_files, i, current_x, x) ==
    IF i > Len(open_files) THEN ""
    ELSE LET estimated_width == Len(PreviewTitle(open_files[i].path)) + 4
         IN IF current_x <= x /\ x < current_x + estimated_width
            THEN open_files[i].id
            ELSE WalkPreviewTabs(open_files, i + 1, current_x + estimated_width, x)

\* _get_tab_at_position that lays the preview titles out from column 0,
\* under the pinned title
panel_get_tab_at_position_NoOffset(self, x, y) ==
    IF y # 0 THEN ""
    ELSE LET terminal_width == Len(TerminalTitle) + 4
         IN IF self.terminal
            THEN IF 0 <= x /\ x < terminal_width
                 THEN terminal_tab_id
                 ELSE WalkPreviewTabs(self.open_files, 1, 0, x)
            ELSE WalkPreviewTabs(self.open_files, 1, 0, x)

\* TabbedRightPanel._get_tab_at_position(x, y); "" stands for None
panel_get_tab_at_position(self, x, y) ==
    IF y # 0 THEN ""
    ELSE LET terminal_width == Len(TerminalTitle) + 4
         IN IF self.terminal
            THEN IF 0 <= x /\ x < terminal_width
                 THEN terminal_tab_id
                 ELSE WalkPreviewTabs(self.open_files, 1, terminal_width, x)
            ELSE WalkPreviewTabs(self.open_files, 1, 0, x)

\* TabbedRightPanel.on_mouse_down(event)
panel_on_mouse_down(self, x, y, button) ==
    LET clicked_tab_id == panel_get_tab_at_position(self, x, y)
        ignored == [self |-> self, tab |-> "", notes |-> <<>>, prevented |-> FALSE]
    IN IF button # 3 \/ y # 0 \/ clicked_tab_id = ""
       THEN ignored
       ELSE IF clicked_tab_id = terminal_tab_id
       THEN [self |-> self, tab |-> clicked_tab_id,
             notes |-> << "Terminal tab cannot be closed" >>, prevented |-> TRUE]
       ELSE [self |-> close_tab_by_id(self, clicked_tab_id).self, tab |-> clicked_tab_id,
             notes |-> <<>>, prevented |-> TRUE]

----------------------------------------------------------------------------
(* TabbedTextArea.close_tab, which also retracts the paired preview tab.   *)

\* close_tab that deletes the mapping entry and leaves the pane mounted
close_tab_KeepPane(self, rp, tab_id) ==
    LET id == IF tab_id = "" THEN self.active ELSE tab_id
    IN IF id = "" \/ ~DictHas(self.open_files, id)
       THEN [self |-> self, rp |-> rp, ok |-> FALSE, path |-> NoPath, notes |-> <<>>]
       ELSE [self |-> [self EXCEPT !.open_files = DictDel(self.open_files, id)],
             rp |-> rp, ok |-> TRUE, path |-> DictGet(self.open_files, id),
             notes |-> <<>>]

\* close_tab that resets the active tab after every removal
close_tab_ClearsActive(self, rp, tab_id) ==
    LET id == IF tab_id = "" THEN self.active ELSE tab_id
    IN IF id = "" \/ ~DictHas(self.open_files, id)
       THEN [self |-> self, rp |-> rp, ok |-> FALSE, path |-> NoPath, notes |-> <<>>]
       ELSE [self |-> [active |-> "",
                       panes |-> RemovePane(self.panes, id),
                       open_files |-> DictDel(self.open_files, id)],
             rp |-> rp, ok |-> TRUE, path |-> DictGet(self.open_files, id),
             notes |-> <<>>]

\* close_tab that leaves the preview of a closed markdown file in the panel
close_tab_KeepPreview(self, rp, tab_id) ==
    LET id == IF tab_id = "" THEN self.active ELSE tab_id
    IN IF id = "" \/ ~DictHas(self.open_files, id)
       THEN [self |-> self, rp |-> rp, ok |-> FALSE, path |-> NoPath, notes |-> <<>>]
       ELSE LET file_path == DictGet(self.open_files, id)
                closed == [self EXCEPT
                             !.active = ActiveAfterRemove(self.panes, self.active, id),
                             !.panes = RemovePane(self.panes, id),
                             !.open_files = DictDel(self.open_files, id)]
            IN [self |-> closed, rp |-> rp, ok |-> TRUE, path |-> file_path,
                notes |-> << "Closed " \o Name(file_path) >>]

\* close_tab that falls back to the active tab when tab_id is not open
close_tab_FallsBack(self, rp, tab_id) ==
    LET id == IF tab_id = "" \/ ~DictHas(self.open_files, tab_id)
              THEN self.active ELSE tab_id
    IN IF id = "" \/ ~DictHas(self.open_files, id)
       THEN [self |-> self, rp |-> rp, ok |-> FALSE, path |-> NoPath, notes |-> <<>>]
       ELSE LET file_path == DictGet(self.open_files, id)
                closed == [self EXCEPT
                             !.active = ActiveAfterRemove(self.panes, self.active, id),
                             !.panes = RemovePane(self.panes, id),
                             !.open_files = DictDel(self.open_files, id)]
            IN IF IsMarkdown(file_path)
               THEN [self |-> closed,
                     rp |-> remove_markdown_tab(rp, file_path).self,
                     ok |-> TRUE, path |-> file_path,
                     notes |-> << "Closed " \o Name(file_path) \o " and its preview" >>]
               ELSE [self |-> closed, rp |-> rp, ok |-> TRUE, path |-> file_path,
                     notes |-> << "Closed " \o Name(file_path) >>]

\* close_tab(tab_id); tab_id = "" stands for None (close the active tab).
\* rp is the "#right_panel" widget the handler looks up.
close_tab(self, rp, tab_id) ==
    LET id == IF tab_id = "" THEN self.active ELSE tab_id
    IN IF id = "" \/ ~DictHas(self.open_files, id)
       THEN [self |-> self, rp |-> rp, ok |-> FALSE, path |-> NoPath, notes |-> <<>>]
       ELSE LET file_path == DictGet(self.open_files, id)
                closed == [self EXCEPT
                             !.active = ActiveAfterRemove(self.panes, self.active, id),
                             !.panes = RemovePane(self.panes, id),
                             !.open_files = DictDel(self.open_files, id)]
            IN IF IsMarkdown(file_path)
               THEN [self |-> closed,
                     rp |-> remove_markdown_tab(rp, file_path).self,
                     ok |-> TRUE, path |-> file_path,
                     notes |-> << "Closed " \o Name(file_path) \o " and its preview" >>]
               ELSE [self |-> closed, rp |-> rp, ok |-> TRUE, path |-> file_path,
                     notes |-> << "Closed " \o Name(file_path) >>]

\* The walk over the editor tabs in _get_tab_at_position: the first entry
\* from index i on whose interval [current_x, current_x + width) holds x.
RECURSIVE WalkEditorTabs(_, _, _, _)
WalkEditorTabs(open_files, i, current_x, x) ==
    IF i > Len(open_files) THEN ""
    ELSE LET estimated_width == Len(Name(open_files[i].path)) + 4
         IN IF current_x <= x /\ x < current_x + estimated_width
            THEN open_files[i].id
            ELSE WalkEditorTabs(open_files, i + 1, current_x + estimated_width, x)

\* TabbedTextArea._get_tab_at_position(x, y); "" stands for None
editor_get_tab_at_position(self, x, y) ==
    IF y # 0 THEN "" ELSE WalkEditorTabs(self.open_files, 1, 0, x)

\* TabbedTextArea.on_mouse_down(event)
editor_on_mouse_down(self, rp, x, y, button) ==
    LET clicked_tab_id == editor_get_tab_at_position(self, x, y)
    IN IF button # 3 \/ clicked_tab_id = ""
       THEN [self |-> self, rp |-> rp, ok |-> FALSE, path |-> NoPath, notes |-> <<>>,
             tab |-> "", prevented |-> FALSE]
       ELSE LET r == close_tab(self, rp, clicked_tab_id)
            IN [self |-> r.self, rp |-> r.rp, ok |-> r.ok, path |-> r.path,
                notes |-> r.notes, tab |-> clicked_tab_id, prevented |-> TRUE]

\* TabbedTextArea.on_key(event): ctrl+w closes the active tab and prevents
\* the default, every other key is posted to the active TextArea; the event
\* is never stopped
editor_on_key(self, rp, key) ==
    IF key = "ctrl+w"
    THEN LET r == close_tab(self, rp, "")
         IN [self |-> r.self, rp |-> r.rp, ok |-> r.ok, path |-> r.path, notes |-> r.notes,
             forwarded |-> FALSE, stopped |-> FALSE, prevented |-> TRUE]
    ELSE [self |-> self, rp |-> rp, ok |-> FALSE, path |-> NoPath, notes |-> <<>>,
          forwarded |-> self.active \in PaneIds(self.panes),
          stopped |-> FALSE, prevented |-> FALSE]

----------------------------------------------------------------------------
(* Syntia (the application): its handlers and actions.                     *)

\* Syntia.sync_markdown_preview(file_path): an exception of read_text() or
\* of add_markdown_tab is swallowed
sync_markdown_preview(rp, dsk, file_path) ==
    LET read == read_text(dsk, file_path)
    IN IF read.raised THEN rp
       ELSE add_markdown_tab(rp, file_path, read.text).self

\* Syntia.on_directory_tree_file_selected(event).  DuplicateIds out of
\* add_file_tab leaves the handler.
on_directory_tree_file_selected(ed, rp, dsk, path) ==
    IF ~IsFile(path)
    THEN [editor |-> ed, right_panel |-> rp, crashed |-> FALSE]
    ELSE LET read == read_text(dsk, path)
             r == add_file_tab(ed, path, IF read.raised THEN "" ELSE read.text)
         IN IF r.raised
            THEN [editor |-> r.self, right_panel |-> rp, crashed |-> TRUE]
            ELSE [editor |-> r.self,
                  right_panel |-> IF IsMarkdown(path)
                                  THEN sync_markdown_preview(rp, dsk, path)
                                  ELSE rp,
                  crashed |-> FALSE]

\* Syntia.action_close_tab
action_close_tab(ed, rp) ==
    LET r == close_tab(ed, rp, "")
    IN [editor |-> r.self, right_panel |-> r.rp, ok |-> r.ok, path |-> r.path,
        notes |-> IF r.ok THEN r.notes ELSE << "No tab to close!" >>]

\* save_active_file that reports success although write_text raised
save_active_file_IgnoresFailure(ed, dsk, write_ok) ==
    LET file_path == get_active_file_path(ed)
    IN IF ed.active = "" \/ ed.active \notin PaneIds(ed.panes) \/ file_path = NoPath
       THEN [disk |-> dsk, ok |-> FALSE]
       ELSE IF write_ok
       THEN [disk |-> [dsk EXCEPT ![file_path] = PaneText(ed.panes, ed.active)], ok |-> TRUE]
       ELSE [disk |-> dsk, ok |-> TRUE]

\* TabbedTextArea.save_active_file; write_ok is whether write_text succeeds
save_active_file(ed, dsk, write_ok) ==
    LET file_path == get_active_file_path(ed)
    IN IF ed.active = "" \/ ed.active \notin PaneIds(ed.panes) \/ file_path = NoPath
       THEN [disk |-> dsk, ok |-> FALSE]
       ELSE IF write_ok
       THEN [disk |-> [dsk EXCEPT ![file_path] = PaneText(ed.panes, ed.active)], ok |-> TRUE]
       ELSE [disk |-> dsk, ok |-> FALSE]

\* Syntia.update_markdown_preview_if_active(file_path)
update_markdown_preview_if_active(ed, rp, dsk, file_path) ==
    LET read == read_text(dsk, file_path)
    IN IF get_active_file_path(ed) = file_path /\ IsMarkdown(file_path) /\ ~read.raised
       THEN update_markdown_tab(rp, file_path, read.text).self
       ELSE rp

\* action_save_file that writes the file and leaves the preview alone
action_save_file_NoRefresh(ed, rp, dsk, write_ok) ==
    LET file_path == get_active_file_path(ed)
        saved == save_active_file(ed, dsk, write_ok)
    IN IF saved.ok
       THEN [right_panel |-> rp, disk |-> saved.disk, ok |-> TRUE, path |-> file_path,
             notes |-> << "File " \o Name(file_path) \o " saved!" >>]
       ELSE [right_panel |-> rp, disk |-> dsk, ok |-> FALSE, path |-> file_path,
             notes |-> << "No file to save or save failed!" >>]

\* Syntia.action_save_file
action_save_file(ed, rp, dsk, write_ok) ==
    LET file_path == get_active_file_path(ed)
        saved == save_active_file(ed, dsk, write_ok)
    IN IF saved.ok
       THEN [right_panel |-> IF IsMarkdown(file_path)
                             THEN update_markdown_preview_if_active(
                                      ed, rp, saved.disk, file_path)
                             ELSE rp,
             disk |-> saved.disk, ok |-> TRUE, path |-> file_path,
             notes |-> << "File " \o Name(file_path) \o " saved!" >>]
       ELSE [right_panel |-> rp, disk |-> dsk, ok |-> FALSE, path |-> file_path,
             notes |-> << "No file to save or save failed!" >>]

\* focus() that always leaves the focus with the panel
panel_focus_Self(rp, a) == [a EXCEPT !.focused = "right_panel"]

\* TabbedRightPanel.focus(scroll_visible): the owner of the focus afterwards
panel_focus(rp, a) ==
    IF rp.active = terminal_tab_id /\ rp.terminal
    THEN [a EXCEPT !.focused = "terminal"]
    ELSE [a EXCEPT !.focused = "right_panel"]

\* TabbedRightPanel.switch_to_terminal_tab
switch_to_terminal_tab(rp) ==
    IF rp.terminal THEN [rp EXCEPT !.active = terminal_tab_id] ELSE rp

\* Syntia.on_ready
on_ready(rp, a) ==
    IF rp.terminal /\ ~a.terminal_initialized
    THEN [a EXCEPT !.ready = TRUE, !.terminal_initialized = TRUE,
                   !.start_calls = a.start_calls + 1]
    ELSE [a EXCEPT !.ready = TRUE]

\* Syntia.action_toggle_terminal of src/syntia/app.py, where the terminal
\* sits below the editor: below.display is terminal.display
toggle_terminal_below(a) ==
    IF a.below.display
    THEN [a EXCEPT !.below.display = FALSE]
    ELSE IF ~a.below.terminal_initialized
    THEN [a EXCEPT !.below.display = TRUE, !.below.terminal_initialized = TRUE,
                   !.below.start_calls = a.below.start_calls + 1]
    ELSE [a EXCEPT !.below.display = TRUE]

\* _show_right_panel that starts the terminal whenever the panel is shown
show_right_panel_NoGuard(rp, a) ==
    [right_panel |-> switch_to_terminal_tab(rp),
     app |-> IF rp.terminal
             THEN [a EXCEPT !.right_panel_collapsed = FALSE,
                            !.terminal_initialized = TRUE,
                            !.start_calls = a.start_calls + 1]
             ELSE [a EXCEPT !.right_panel_collapsed = FALSE]]

\* Syntia._show_right_panel
show_right_panel(rp, a) ==
    [right_panel |-> switch_to_terminal_tab(rp),
     app |-> IF rp.terminal /\ ~a.terminal_initialized
             THEN [a EXCEPT !.right_panel_collapsed = FALSE,
                            !.terminal_initialized = TRUE,
                            !.start_calls = a.start_calls + 1]
             ELSE [a EXCEPT !.right_panel_collapsed = FALSE]]

\* Syntia._hide_right_panel
hide_right_panel(rp, a) ==
    [right_panel |-> rp, app |-> [a EXCEPT !.right_panel_collapsed = TRUE]]

\* Syntia.action_toggle_terminal
action_toggle_terminal(rp, a) ==
    IF a.right_panel_collapsed THEN show_right_panel(rp, a) ELSE hide_right_panel(rp, a)

\* the keys Syntia.BINDINGS binds
AppKeys == {"ctrl+s", "ctrl+w", "ctrl+t", "ctrl+q"}

----------------------------------------------------------------------------
(* SyntiaTerminal: the shell widget's key handler.                         *)

\* SyntiaTerminal.APP_KEYBINDINGS
APP_KEYBINDINGS == {"ctrl+s", "ctrl+w", "ctrl+t", "ctrl+q"}

\* self.ctrl_keys.get(event.key) or event.character: the character a key
\* sends to the shell, "" for a key that has none
KeyChar(key) ==
    CASE key = "x" -> "x"
      [] key = "enter" -> "<CR>"
      [] key = "ctrl+c" -> "^C"
      [] key = "ctrl+s" -> "^S"
      [] key = "ctrl+w" -> "^W"
      [] key = "ctrl+t" -> "^T"
      [] key = "ctrl+q" -> "^Q"
      [] OTHER -> ""

\* the emulator exists once terminal.start() has been called
EmulatorOf(a) == a.start_calls > 0

\* on_key that queues the character of a key twice
terminal_on_key_Twice(a, key) ==
    IF ~EmulatorOf(a)
    THEN [app |-> a, stopped |-> FALSE]
    ELSE IF key \in APP_KEYBINDINGS
    THEN [app |-> a, stopped |-> FALSE]
    ELSE IF key = "ctrl+f1"
    THEN [app |-> [a EXCEPT !.focused = ""], stopped |-> FALSE]
    ELSE [app |-> IF KeyChar(key) # ""
                  THEN [a EXCEPT !.send_queue =
                            Append(Append(a.send_queue, KeyChar(key)), KeyChar(key))]
                  ELSE a,
          stopped |-> TRUE]

\* on_key without the APP_KEYBINDINGS test: every key but ctrl+f1 is
\* stopped and queued
terminal_on_key_NoBubble(a, key) ==
    IF ~EmulatorOf(a)
    THEN [app |-> a, stopped |-> FALSE]
    ELSE IF key = "ctrl+f1"
    THEN [app |-> [a EXCEPT !.focused = ""], stopped |-> FALSE]
    ELSE [app |-> IF KeyChar(key) # ""
                  THEN [a EXCEPT !.send_queue = Append(a.send_queue, KeyChar(key))]
                  ELSE a,
          stopped |-> TRUE]

\* SyntiaTerminal.on_key(event)
terminal_on_key(a, key) ==
    IF ~EmulatorOf(a)
    THEN [app |-> a, stopped |-> FALSE]
    ELSE IF key \in APP_KEYBINDINGS
    THEN [app |-> a, stopped |-> FALSE]
    ELSE IF key = "ctrl+f1"
    THEN [app |-> [a EXCEPT !.focused = ""], stopped |-> FALSE]
    ELSE [app |-> IF KeyChar(key) # ""
                  THEN [a EXCEPT !.send_queue = Append(a.send_queue, KeyChar(key))]
                  ELSE a,
          stopped |-> TRUE]

\* What Syntia.BINDINGS runs for a key that reaches the application
app_binding(ed, rp, dsk, a, key, write_ok) ==
    LET same == [editor |-> ed, right_panel |-> rp, disk |-> dsk, app |-> a,
                 ok |-> FALSE, path |-> NoPath, notes |-> <<>>, action |-> ""]
    IN CASE key = "ctrl+s" ->
              LET r == action_save_file(ed, rp, dsk, write_ok)
              IN [same EXCEPT !.right_panel = r.right_panel, !.disk = r.disk,
                              !.ok = r.ok, !.path = r.path, !.notes = r.notes,
                              !.action = "save_file"]
         [] key = "ctrl+w" ->
              LET r == action_close_tab(ed, rp)
              IN [same EXCEPT !.editor = r.editor, !.right_panel = r.right_panel,
                              !.ok = r.ok, !.path = r.path, !.notes = r.notes,
                              !.action = "close_tab"]
         [] key = "ctrl+t" ->
              LET r == action_toggle_terminal(rp, a)
              IN [same EXCEPT !.right_panel = r.right_panel, !.app = r.app,
                              !.action = "toggle_terminal"]
         [] key = "ctrl+q" ->
              [same EXCEPT !.app = [a EXCEPT !.exited = TRUE], !.action = "quit"]
         [] OTHER -> same

\* on_key that sends ctrl+w to the panel's own close_active_tab whichever
\* tab is active
panel_on_key_NoDelegate(ed, rp, dsk, a, key, write_ok) ==
    LET same == [editor |-> ed, right_panel |-> rp, disk |-> dsk, app |-> a,
                 ok |-> FALSE, notes |-> <<>>, stopped |-> TRUE, prevented |-> TRUE,
                 action |-> ""]
    IN CASE key = "ctrl+s" ->
              LET r == action_save_file(ed, rp, dsk, write_ok)
              IN [same EXCEPT !.right_panel = r.right_panel, !.disk = r.disk,
                              !.ok = r.ok, !.notes = r.notes, !.action = "save_file"]
         [] key = "ctrl+t" ->
              LET r == action_toggle_terminal(rp, a)
              IN [same EXCEPT !.right_panel = r.right_panel, !.app = r.app,
                              !.action = "toggle_terminal"]
         [] key = "ctrl+q" ->
              [same EXCEPT !.app = [a EXCEPT !.exited = TRUE], !.action = "quit"]
         [] key = "ctrl+w" ->
              LET r == close_active_tab(rp)
              IN [same EXCEPT !.right_panel = r.self, !.ok = r.ok, !.notes = r.notes,
                                   !.action = "close_active_tab"]
         [] OTHER -> [same EXCEPT !.stopped = FALSE, !.prevented = FALSE]

\* on_key that sends ctrl+w to the application's close action whichever
\* tab is active
panel_on_key_AlwaysDelegate(ed, rp, dsk, a, key, write_ok) ==
    LET same == [editor |-> ed, right_panel |-> rp, disk |-> dsk, app |-> a,
                 ok |-> FALSE, notes |-> <<>>, stopped |-> TRUE, prevented |-> TRUE,
                 action |-> ""]
    IN CASE key = "ctrl+s" ->
              LET r == action_save_file(ed, rp, dsk, write_ok)
              IN [same EXCEPT !.right_panel = r.right_panel, !.disk = r.disk,
                              !.ok = r.ok, !.notes = r.notes, !.action = "save_file"]
         [] key = "ctrl+t" ->
              LET r == action_toggle_terminal(rp, a)
              IN [same EXCEPT !.right_panel = r.right_panel, !.app = r.app,
                              !.action = "toggle_terminal"]
         [] key = "ctrl+q" ->
              [same EXCEPT !.app = [a EXCEPT !.exited = TRUE], !.action = "quit"]
         [] key = "ctrl+w" ->
              LET r == action_close_tab(ed, rp)
              IN [same EXCEPT !.editor = r.editor, !.right_panel = r.right_panel,
                              !.ok = r.ok, !.notes = r.notes, !.action = "close_tab"]
         [] OTHER -> [same EXCEPT !.stopped = FALSE, !.prevented = FALSE]

\* on_key that handles the four bound keys and never stops the event
panel_on_key_NoStop(ed, rp, dsk, a, key, write_ok) ==
    LET same == [editor |-> ed, right_panel |-> rp, disk |-> dsk, app |-> a,
                 ok |-> FALSE, notes |-> <<>>, stopped |-> FALSE, prevented |-> TRUE,
                 action |-> ""]
    IN CASE key = "ctrl+s" ->
              LET r == action_save_file(ed, rp, dsk, write_ok)
              IN [same EXCEPT !.right_panel = r.right_panel, !.disk = r.disk,
                              !.ok = r.ok, !.notes = r.notes, !.action = "save_file"]
         [] key = "ctrl+t" ->
              LET r == action_toggle_terminal(rp, a)
              IN [same EXCEPT !.right_panel = r.right_panel, !.app = r.app,
                              !.action = "toggle_terminal"]
         [] key = "ctrl+q" ->
              [same EXCEPT !.app = [a EXCEPT !.exited = TRUE], !.action = "quit"]
         [] key = "ctrl+w" ->
              IF rp.active = terminal_tab_id
              THEN LET r == action_close_tab(ed, rp)
                   IN [same EXCEPT !.editor = r.editor, !.right_panel = r.right_panel,
                                   !.ok = r.ok, !.notes = r.notes, !.action = "close_tab"]
              ELSE LET r == close_active_tab(rp)
                   IN [same EXCEPT !.right_panel = r.self, !.ok = r.ok, !.notes = r.notes,
                                   !.action = "close_active_tab"]
         [] OTHER -> [same EXCEPT !.prevented = FALSE]

\* on_key that stops and prevents every key it receives
panel_on_key_StopsAll(ed, rp, dsk, a, key, write_ok) ==
    LET same == [editor |-> ed, right_panel |-> rp, disk |-> dsk, app |-> a,
                 ok |-> FALSE, notes |-> <<>>, stopped |-> TRUE, prevented |-> TRUE,
                 action |-> ""]
    IN CASE key = "ctrl+s" ->
              LET r == action_save_file(ed, rp, dsk, write_ok)
              IN [same EXCEPT !.right_panel = r.right_panel, !.disk = r.disk,
                              !.ok = r.ok, !.notes = r.notes, !.action = "save_file"]
         [] key = "ctrl+t" ->
              LET r == action_toggle_terminal(rp, a)
              IN [same EXCEPT !.right_panel = r.right_panel, !.app = r.app,
                              !.action = "toggle_terminal"]
         [] key = "ctrl+q" ->
              [same EXCEPT !.app = [a EXCEPT !.exited = TRUE], !.action = "quit"]
         [] key = "ctrl+w" ->
              IF rp.active = terminal_tab_id
              THEN LET r == action_close_tab(ed, rp)
                   IN [same EXCEPT !.editor = r.editor, !.right_panel = r.right_panel,
                                   !.ok = r.ok, !.notes = r.notes, !.action = "close_tab"]
              ELSE LET r == close_active_tab(rp)
                   IN [same EXCEPT !.right_panel = r.self, !.ok = r.ok, !.notes = r.notes,
                                   !.action = "close_active_tab"]
         [] OTHER -> same

\* TabbedRightPanel.on_key(event)
panel_on_key(ed, rp, dsk, a, key, write_ok) ==
    LET same == [editor |-> ed, right_panel |-> rp, disk |-> dsk, app |-> a,
                 ok |-> FALSE, notes |-> <<>>, stopped |-> TRUE, prevented |-> TRUE,
                 action |-> ""]
    IN CASE key = "ctrl+s" ->
              LET r == action_save_file(ed, rp, dsk, write_ok)
              IN [same EXCEPT !.right_panel = r.right_panel, !.disk = r.disk,
                              !.ok = r.ok, !.notes = r.notes, !.action = "save_file"]
         [] key = "ctrl+t" ->
              LET r == action_toggle_terminal(rp, a)
              IN [same EXCEPT !.right_panel = r.right_panel, !.app = r.app,
                              !.action = "toggle_terminal"]
         [] key = "ctrl+q" ->
              [same EXCEPT !.app = [a EXCEPT !.exited = TRUE], !.action = "quit"]
         [] key = "ctrl+w" ->
              IF rp.active = terminal_tab_id
              THEN LET r == action_close_tab(ed, rp)
                   IN [same EXCEPT !.editor = r.editor, !.right_panel = r.right_panel,
                                   !.ok = r.ok, !.notes = r.notes, !.action = "close_tab"]
              ELSE LET r == close_active_tab(rp)
                   IN [same EXCEPT !.right_panel = r.self, !.ok = r.ok, !.notes = r.notes,
                                   !.action = "close_active_tab"]
         [] OTHER -> [same EXCEPT !.stopped = FALSE, !.prevented = FALSE]

----------------------------------------------------------------------------
(* VerticalSplitter and HorizontalSplitter.                                *)

\* max(16, ...) in VerticalSplitter.on_mouse_move
VMinWidth == 16

\* max(5, ...) in HorizontalSplitter.on_mouse_move
HMinHeight == 5

\* parent extent - 10 in both on_mouse_move handlers
ReservedOpposite == 10

\* "#tree { width: 30 }": the left pane's width before any drag
InitialLeftWidth == 30

\* "#terminal { height: 15 }": the lower pane's height before any drag
InitialBelowHeight == 15

Min(a, b) == IF a < b THEN a ELSE b

Max(a, b) == IF a > b THEN a ELSE b

\* a splitter as constructed, in a container of the given extent; size is
\* the adjacent pane's size.width / size.height, assigned is whether a drag
\* has set the pane's styles.width / styles.height
SplitterInit(extent, initial_size) ==
    [dragging |-> FALSE, start |-> 0, start_size |-> 0,
     size |-> Min(initial_size, extent), extent |-> extent, assigned |-> FALSE]

\* on_mouse_down(event): the drag state after the press at coordinate c
splitter_on_mouse_down(self, c) ==
    [self EXCEPT !.dragging = TRUE, !.start_size = self.size, !.start = c]

\* the width computed without the lower bound
v_new_width_NoMin(self, screen_x) ==
    Min(self.extent - ReservedOpposite, self.start_size + (screen_x - self.start))

\* the width computed without the upper bound
v_new_width_NoMax(self, screen_x) ==
    Max(VMinWidth, self.start_size + (screen_x - self.start))

\* the width computed from the pane's current width instead of the width
\* snapshotted at the press
v_new_width_Incremental(self, screen_x) ==
    LET delta == screen_x - self.start
    IN Max(VMinWidth, Min(self.extent - ReservedOpposite, self.size + delta))

\* VerticalSplitter.on_mouse_move: the width given to the left pane
v_new_width(self, screen_x) ==
    LET delta == screen_x - self.start
    IN Max(VMinWidth, Min(self.extent - ReservedOpposite, self.start_size + delta))

\* HorizontalSplitter.on_mouse_move: the height given to the pane below
h_new_height(self, screen_y) ==
    LET delta == screen_y - self.start
    IN Max(HMinHeight, Min(self.extent - ReservedOpposite, self.start_size - delta))

\* on_mouse_move without the test of _dragging
v_on_mouse_move_NoGuard(self, screen_x) ==
    [self EXCEPT !.size = v_new_width(self, screen_x), !.assigned = TRUE]

\* VerticalSplitter.on_mouse_move(event)
v_on_mouse_move(self, screen_x) ==
    IF ~self.dragging THEN self
    ELSE [self EXCEPT !.size = v_new_width(self, screen_x), !.assigned = TRUE]

\* HorizontalSplitter.on_mouse_move(event)
h_on_mouse_move(self, screen_y) ==
    IF ~self.dragging THEN self
    ELSE [self EXCEPT !.size = h_new_height(self, screen_y), !.assigned = TRUE]

\* on_mouse_up(event)
splitter_on_mouse_up(self) ==
    IF self.dragging THEN [self EXCEPT !.dragging = FALSE] ELSE self

\* on_mouse_down that does not take the pointer
capture_on_mouse_down_NoCapture(which, capture) == capture

\* self.capture_mouse(True) in on_mouse_down: the pointer's holder after
\* the press on the splitter `which`
capture_on_mouse_down(which, capture) == which

\* on_mouse_up that keeps the pointer
capture_on_mouse_up_Keeps(self, capture) == capture

\* self.capture_mouse(False) in on_mouse_up, reached only while dragging:
\* the pointer's holder after the release
capture_on_mouse_up(self, capture) ==
    IF self.dragging THEN "none" ELSE capture

----------------------------------------------------------------------------
(* Initial state: the widgets composed and mounted, nothing open.          *)

NoCall == [op |-> "init", path |-> NoPath, content |-> "", ret |-> "", raised |-> FALSE]

NoOp == [op |-> "init", path |-> NoPath, tab |-> "", content |-> "",
         ret |-> "", ok |-> FALSE, raised |-> FALSE, notes |-> <<>>,
         key |-> "", x |-> 0, y |-> 0, button |-> 0,
         stopped |-> FALSE, prevented |-> FALSE, prev |-> NoCall,
         closed |-> <<>>, acted |-> <<>>, write_ok |-> TRUE]

\* What `last` keeps of the call before it: kept only when add_markdown_tab
\* directly follows an add_markdown_tab of the same path with other content.
Prev(file_path, content) ==
    IF last.op = "add_markdown_tab" /\ last.path = file_path /\ last.content # content
    THEN [op |-> last.op, path |-> last.path, content |-> last.content,
          ret |-> last.ret, raised |-> last.raised]
    ELSE NoCall

\* TabbedTextArea.__init__ / compose
EditorInit == [open_files |-> <<>>, panes |-> <<>>, active |-> ""]

\* TabbedRightPanel.__init__ / compose / on_mount
RightPanelInit(terminal) ==
    [terminal |-> terminal,
     open_files |-> <<>>,
     panes |-> IF terminal
               THEN << [id |-> terminal_tab_id, title |-> TerminalTitle, text |-> ""] >>
               ELSE <<>>,
     active |-> IF terminal THEN terminal_tab_id ELSE ""]

\* Syntia.__init__; start_calls counts the calls of terminal.start(), exited
\* is set by the quit action
AppInit == [terminal_initialized |-> FALSE, right_panel_collapsed |-> FALSE,
            start_calls |-> 0, exited |-> FALSE,
            send_queue |-> <<>>, focused |-> "", ready |-> FALSE,
            below |-> [display |-> FALSE, terminal_initialized |-> FALSE,
                       start_calls |-> 0]]

Snapshot == [editor |-> editor, right_panel |-> right_panel, assigned |-> assigned,
             splitters |-> splitters, app |-> app, disk |-> disk]

\* the two splitters in containers of the given extents
SplittersIn(widths, heights) ==
    { [v |-> SplitterInit(w, InitialLeftWidth), h |-> SplitterInit(ht, InitialBelowHeight)] :
        w \in widths, ht \in heights }

\* the application's widgets as Syntia.compose builds them
Init ==
    /\ editor = EditorInit
    /\ right_panel = RightPanelInit(TRUE)
    /\ disk \in InitDisks
    /\ assigned = {}
    /\ crashed = FALSE
    /\ app = AppInit
    /\ splitters \in SplittersIn({WideWidth}, {WideHeight})
    /\ mouse_capture = "none"
    /\ last = NoOp
    /\ pre = Snapshot

\* the event loop is still delivering events
Running == ~crashed /\ ~app.exited

----------------------------------------------------------------------------
(* Direct calls of the editor's operations.                                *)


\* open(path)
AddFileTab(file_path) ==
    /\ Running
    /\ LET read == read_text(disk, file_path)
           r == add_file_tab(editor, file_path, IF read.raised THEN "" ELSE read.text)
       IN   /\ editor' = r.self
            /\ assigned' = assigned \cup (PaneIds(r.self.panes) \ PaneIds(editor.panes))
            /\ last' = [NoOp EXCEPT !.op = "add_file_tab", !.path = file_path,
                                    !.ret = r.ret, !.raised = r.raised]
    /\ pre' = Snapshot
    /\ UNCHANGED splitvars
    /\ UNCHANGED <<right_panel, disk, crashed, app>>

\* close(tab_id), tab_id = "" for the default (active) tab
CloseTab(tab_id) ==
    /\ Running
    /\ LET r == close_tab(editor, right_panel, tab_id)
       IN /\ editor' = r.self
          /\ right_panel' = r.rp
          /\ last' = [NoOp EXCEPT !.op = "close_tab", !.tab = tab_id, !.ok = r.ok,
                                  !.path = r.path, !.notes = r.notes]
    /\ pre' = Snapshot
    /\ UNCHANGED splitvars
    /\ UNCHANGED <<disk, assigned, crashed, app>>

\* the user selects a tab header of the editor's TabbedContent
ActivateEditorTab(tab_id) ==
    /\ Running
    /\ tab_id \in PaneIds(editor.panes)
    /\ editor' = [editor EXCEPT !.active = tab_id]
    /\ last' = [NoOp EXCEPT !.op = "activate_editor_tab", !.tab = tab_id]
    /\ pre' = Snapshot
    /\ UNCHANGED splitvars
    /\ UNCHANGED <<right_panel, disk, assigned, crashed, app>>

\* tab ids a caller may pass: every id the scheme can produce, and None
EditorTabIds == { "tab_" \o ToString(n) : n \in 0..NumPaths }

NextEditor ==
    \/ \E file_path \in Paths : AddFileTab(file_path)
    \/ \E tab_id \in EditorTabIds \cup {""} : CloseTab(tab_id)
    \/ \E tab_id \in EditorTabIds : ActivateEditorTab(tab_id)

SpecEditor == Init /\ [][NextEditor]_vars

\* Path.suffix values of the files offered to the editor: the bound ones,
\* upper-case spellings, unbound ones and the empty suffix
AllLangSuffixes ==
    << ".py", ".md", ".js", ".jsx", ".ts", ".tsx", ".json", ".html", ".htm",
       ".css", ".toml", ".txt", ".MD", "", ".yaml", ".PY", ".rs", ".mjs" >>

LangPaths == { [stem |-> "f", suffix |-> AllLangSuffixes[i]] : i \in 1..NumLangSuffixes }

\* open(path) while fewer than MaxLangTabs buffers are open
OpenBuffer(file_path) ==
    /\ Len(editor.open_files) < MaxLangTabs
    /\ AddFileTab(file_path)

NextLang ==
    \/ \E file_path \in LangPaths : OpenBuffer(file_path)
    \/ CloseTab("")

SpecLang == Init /\ [][NextLang]_vars

----------------------------------------------------------------------------
(* Direct calls of the preview panel's operations.                         *)

\* a panel constructed with or without a terminal, nothing else running
InitPanel ==
    /\ editor = EditorInit
    /\ \E terminal \in BOOLEAN : right_panel = RightPanelInit(terminal)
    /\ disk \in InitDisks
    /\ assigned = {}
    /\ crashed = FALSE
    /\ app = AppInit
    /\ splitters \in SplittersIn({WideWidth}, {WideHeight})
    /\ mouse_capture = "none"
    /\ last = NoOp
    /\ pre = Snapshot

\* add_or_update_markdown(path, content)
AddMarkdownTab(file_path, content) ==
    /\ Running
    /\ LET r == add_markdown_tab(right_panel, file_path, content)
       IN /\ right_panel' = r.self
          /\ assigned' = assigned \cup (PaneIds(r.self.panes) \ PaneIds(right_panel.panes))
          /\ last' = [NoOp EXCEPT !.op = "add_markdown_tab", !.path = file_path,
                                  !.content = content, !.ret = r.ret,
                                  !.raised = r.raised, !.prev = Prev(file_path, content)]
    /\ pre' = Snapshot
    /\ UNCHANGED splitvars
    /\ UNCHANGED <<editor, disk, crashed, app>>

\* update_markdown(path, content)
UpdateMarkdownTab(file_path, content) ==
    /\ Running
    /\ LET r == update_markdown_tab(right_panel, file_path, content)
       IN /\ right_panel' = r.self
          /\ last' = [NoOp EXCEPT !.op = "update_markdown_tab", !.path = file_path,
                                  !.content = content, !.ok = r.ok]
    /\ pre' = Snapshot
    /\ UNCHANGED splitvars
    /\ UNCHANGED <<editor, disk, assigned, crashed, app>>

\* remove_markdown(path)
RemoveMarkdownTab(file_path) ==
    /\ Running
    /\ LET r == remove_markdown_tab(right_panel, file_path)
       IN /\ right_panel' = r.self
          /\ last' = [NoOp EXCEPT !.op = "remove_markdown_tab", !.path = file_path,
                                  !.ok = r.ok]
    /\ pre' = Snapshot
    /\ UNCHANGED splitvars
    /\ UNCHANGED <<editor, disk, assigned, crashed, app>>

ClearAllTabs ==
    /\ Running
    /\ right_panel' = clear_all_tabs(right_panel)
    /\ last' = [NoOp EXCEPT !.op = "clear_all_tabs"]
    /\ pre' = Snapshot
    /\ UNCHANGED splitvars
    /\ UNCHANGED <<editor, disk, assigned, crashed, app>>

\* close_active
CloseActiveTab ==
    /\ Running
    /\ LET r == close_active_tab(right_panel)
       IN /\ right_panel' = r.self
          /\ last' = [NoOp EXCEPT !.op = "close_active_tab", !.ok = r.ok,
                                  !.notes = r.notes]
    /\ pre' = Snapshot
    /\ UNCHANGED splitvars
    /\ UNCHANGED <<editor, disk, assigned, crashed, app>>

\* close_by_id(tab_id)
CloseTabById(tab_id) ==
    /\ Running
    /\ LET r == close_tab_by_id(right_panel, tab_id)
       IN /\ right_panel' = r.self
          /\ last' = [NoOp EXCEPT !.op = "close_tab_by_id", !.tab = tab_id,
                                  !.ok = r.ok, !.notes = r.notes]
    /\ pre' = Snapshot
    /\ UNCHANGED splitvars
    /\ UNCHANGED <<editor, disk, assigned, crashed, app>>

\* focus() is called on the panel
PanelFocus ==
    /\ Running
    /\ app' = panel_focus(right_panel, app)
    /\ last' = [NoOp EXCEPT !.op = "panel_focus"]
    /\ pre' = Snapshot
    /\ UNCHANGED splitvars
    /\ UNCHANGED <<editor, right_panel, disk, assigned, crashed>>

\* the user selects a tab header of the panel's TabbedContent
ActivatePanelTab(tab_id) ==
    /\ Running
    /\ tab_id \in PaneIds(right_panel.panes)
    /\ right_panel' = [right_panel EXCEPT !.active = tab_id]
    /\ last' = [NoOp EXCEPT !.op = "activate_panel_tab", !.tab = tab_id]
    /\ pre' = Snapshot
    /\ UNCHANGED splitvars
    /\ UNCHANGED <<editor, disk, assigned, crashed, app>>

\* the paths the application mirrors in the panel
MarkdownPaths == { file_path \in Paths : IsMarkdown(file_path) }

\* tab ids a caller may pass: the pinned id and every id the scheme can produce
PanelTabIds == { "preview_tab_" \o ToString(n) : n \in 0..NumPaths } \cup {terminal_tab_id}

NextPanel ==
    \/ \E file_path \in MarkdownPaths, content \in Contents :
          AddMarkdownTab(file_path, content)
    \/ \E file_path \in MarkdownPaths, content \in Contents :
          UpdateMarkdownTab(file_path, content)
    \/ \E file_path \in MarkdownPaths : RemoveMarkdownTab(file_path)
    \/ ClearAllTabs
    \/ CloseActiveTab
    \/ \E tab_id \in PanelTabIds : CloseTabById(tab_id)
    \/ \E tab_id \in PanelTabIds : ActivatePanelTab(tab_id)
    \/ PanelFocus

SpecPanel == InitPanel /\ [][NextPanel]_vars

----------------------------------------------------------------------------
(* The application's events.                                               *)

\* ids mounted by a step: the panes of the new widgets that the old lacked
NewIds(ed, rp) ==
    (PaneIds(ed.panes) \ PaneIds(editor.panes))
        \cup (PaneIds(rp.panes) \ PaneIds(right_panel.panes))

\* the file tree reports a selection
OnDirectoryTreeFileSelected(path) ==
    /\ Running
    /\ LET r == on_directory_tree_file_selected(editor, right_panel, disk, path)
       IN   /\ editor' = r.editor
            /\ right_panel' = r.right_panel
            /\ crashed' = r.crashed
            /\ assigned' = assigned \cup NewIds(r.editor, r.right_panel)
            /\ last' = [NoOp EXCEPT !.op = "file_selected", !.path = path,
                                    !.raised = r.crashed]
    /\ pre' = Snapshot
    /\ UNCHANGED splitvars
    /\ UNCHANGED <<disk, app>>

\* the application's ctrl+w binding
ActionCloseTab ==
    /\ Running
    /\ LET r == action_close_tab(editor, right_panel)
       IN /\ editor' = r.editor
          /\ right_panel' = r.right_panel
          /\ last' = [NoOp EXCEPT !.op = "action_close_tab", !.ok = r.ok,
                                  !.path = r.path, !.notes = r.notes,
                                  !.closed = IF r.ok THEN << r.path >> ELSE <<>>]
    /\ pre' = Snapshot
    /\ UNCHANGED splitvars
    /\ UNCHANGED <<disk, assigned, crashed, app>>

\* the application's ctrl+s binding; write_text succeeds or raises
ActionSaveFile ==
    /\ Running
    /\ \E write_ok \in BOOLEAN :
         LET r == action_save_file(editor, right_panel, disk, write_ok)
         IN /\ right_panel' = r.right_panel
            /\ disk' = r.disk
            /\ last' = [NoOp EXCEPT !.op = "action_save_file", !.ok = r.ok,
                                    !.path = r.path, !.notes = r.notes,
                                    !.write_ok = write_ok]
    /\ pre' = Snapshot
    /\ UNCHANGED splitvars
    /\ UNCHANGED <<editor, assigned, crashed, app>>

\* the user edits the buffer of the active editor tab: the TextArea's text
\* becomes content
EditBuffer(content) ==
    /\ Running
    /\ editor.active \in PaneIds(editor.panes)
    /\ PaneText(editor.panes, editor.active) # content
    /\ editor' = [editor EXCEPT !.panes = SetPaneText(editor.panes, editor.active, content)]
    /\ last' = [NoOp EXCEPT !.op = "edit_buffer", !.content = content]
    /\ pre' = Snapshot
    /\ UNCHANGED splitvars
    /\ UNCHANGED <<right_panel, disk, assigned, crashed, app>>

\* the state and the record left by a key event of the editor: h is what
\* TabbedTextArea.on_key gave, b what the application's binding gave
EditorKeyDelivered(h, b, key, bubbled_close) ==
    /\ editor' = b.editor
    /\ right_panel' = b.right_panel
    /\ disk' = b.disk
    /\ app' = b.app
    /\ last' = [NoOp EXCEPT !.op = "editor_on_key", !.key = key, !.ok = h.ok,
                            !.path = h.path, !.notes = h.notes \o b.notes,
                            !.stopped = h.stopped, !.prevented = h.prevented,
                            !.closed = (IF h.ok THEN << h.path >> ELSE <<>>)
                                \o (IF bubbled_close THEN << b.path >> ELSE <<>>),
                            !.acted = (IF key = "ctrl+w" THEN << "close_tab" >> ELSE <<>>)
                                \o (IF b.action = "" THEN <<>> ELSE << b.action >>)]

\* the binding's result for an event the editor handled, and whether the
\* bubbled ctrl+w closed a tab of its own
EditorKeyBound(h, b, key) ==
    EditorKeyDelivered(h, b, key, ~h.stopped /\ key = "ctrl+w" /\ b.ok)

\* the event handled by the editor reaches the application's bindings
\* unless the editor stopped it
EditorKeyBubbles(h, key, write_ok) ==
    EditorKeyBound(h,
                   app_binding(h.self, h.rp, disk, app,
                               IF h.stopped THEN "" ELSE key, write_ok),
                   key)

\* The editor's tab manager receives a key event.  TabbedTextArea.on_key
\* runs first; the event, which it never stops, bubbles on to the
\* application, where a key of BINDINGS runs its action.
EditorOnKey(key) ==
    /\ Running
    /\ \E write_ok \in (IF key = "ctrl+s" THEN BOOLEAN ELSE {TRUE}) :
         EditorKeyBubbles(editor_on_key(editor, right_panel, key), key, write_ok)
    /\ pre' = Snapshot
    /\ UNCHANGED splitvars
    /\ UNCHANGED <<assigned, crashed>>

\* the editor's tab manager receives a mouse-down event
EditorMouseDown(x, y, button) ==
    /\ Running
    /\ LET r == editor_on_mouse_down(editor, right_panel, x, y, button)
       IN /\ editor' = r.self
          /\ right_panel' = r.rp
          /\ last' = [NoOp EXCEPT !.op = "editor_on_mouse_down", !.x = x, !.y = y,
                                  !.button = button, !.tab = r.tab, !.ok = r.ok,
                                  !.path = r.path, !.notes = r.notes,
                                  !.prevented = r.prevented,
                                  !.closed = IF r.ok THEN << r.path >> ELSE <<>>]
    /\ pre' = Snapshot
    /\ UNCHANGED splitvars
    /\ UNCHANGED <<disk, assigned, crashed, app>>

\* the state and the record left by a key event of the panel: h is what
\* TabbedRightPanel.on_key gave, b what the application's binding gave
PanelKeyDelivered(h, b, key, write_ok) ==
    /\ editor' = b.editor
    /\ right_panel' = b.right_panel
    /\ disk' = b.disk
    /\ app' = b.app
    /\ last' = [NoOp EXCEPT !.op = "panel_on_key", !.key = key, !.ok = h.ok,
                            !.notes = h.notes \o b.notes, !.stopped = h.stopped,
                            !.prevented = h.prevented, !.write_ok = write_ok,
                            !.acted = (IF h.action = "" THEN <<>> ELSE << h.action >>)
                                \o (IF b.action = "" THEN <<>> ELSE << b.action >>)]

\* the event handled by the panel reaches the application's bindings unless
\* the panel stopped it
PanelKeyBubbles(h, key, write_ok) ==
    PanelKeyDelivered(h,
                      app_binding(h.editor, h.right_panel, h.disk, h.app,
                                  IF h.stopped THEN "" ELSE key, write_ok),
                      key, write_ok)

\* The panel, shown, receives a key event.  TabbedRightPanel.on_key runs
\* first; an event it does not stop bubbles on to the application, where a
\* key of BINDINGS runs its action.
PanelOnKey(key) ==
    /\ Running
    /\ ~app.right_panel_collapsed
    /\ \E write_ok \in (IF key = "ctrl+s" THEN BOOLEAN ELSE {TRUE}) :
         PanelKeyBubbles(panel_on_key(editor, right_panel, disk, app, key, write_ok),
                         key, write_ok)
    /\ pre' = Snapshot
    /\ UNCHANGED splitvars
    /\ UNCHANGED <<assigned, crashed>>

\* the panel, shown, receives a mouse-down event
PanelMouseDown(x, y, button) ==
    /\ Running
    /\ ~app.right_panel_collapsed
    /\ LET r == panel_on_mouse_down(right_panel, x, y, button)
       IN /\ right_panel' = r.self
          /\ last' = [NoOp EXCEPT !.op = "panel_on_mouse_down", !.x = x, !.y = y,
                                  !.button = button, !.tab = r.tab, !.notes = r.notes,
                                  !.prevented = r.prevented]
    /\ pre' = Snapshot
    /\ UNCHANGED splitvars
    /\ UNCHANGED <<editor, disk, assigned, crashed, app>>

\* what the file tree can report: every file and a directory
TreePaths == Paths \cup {Directory}

\* the first column of every title laid out from current_x on, and the
\* first column after the last title
RECURSIVE TitleStarts(_, _, _)
TitleStarts(open_files, i, current_x) ==
    IF i > Len(open_files) THEN {current_x}
    ELSE {current_x}
             \cup TitleStarts(open_files, i + 1,
                              current_x + Len(PreviewTitle(open_files[i].path)) + 4)

\* The presses the panel is sent: a secondary-button press on the header
\* row at the first column of each title and after the last one, one below
\* the header row, and a primary-button press.
PanelClicks ==
    { <<x, 0, 3>> : x \in
        IF right_panel.terminal
        THEN {0} \cup TitleStarts(right_panel.open_files, 1, Len(TerminalTitle) + 4)
        ELSE TitleStarts(right_panel.open_files, 1, 0) }
      \cup { <<0, 1, 3>>, <<0, 0, 1>> }

\* keys the panel is sent: the close binding and an unbound key
CloseKeys == {"ctrl+w", "x"}

NextApp ==
    \/ \E path \in TreePaths : OnDirectoryTreeFileSelected(path)
    \/ ActionCloseTab
    \/ \E key \in CloseKeys : PanelOnKey(key)
    \/ \E click \in PanelClicks : PanelMouseDown(click[1], click[2], click[3])
    \/ \E tab_id \in EditorTabIds : ActivateEditorTab(tab_id)
    \/ \E tab_id \in PanelTabIds : ActivatePanelTab(tab_id)

Spec == Init /\ [][NextApp]_vars

\* the files the tree offers while the pinned tab is under attack: a
\* markdown file, a source file, then a second markdown file
PinnedOrder == << AllPaths[1], AllPaths[3], AllPaths[2], AllPaths[4] >>

PinnedPaths == { PinnedOrder[i] : i \in 1..NumPinnedPaths }

\* the keys that reach the panel's tabs: close tab and toggle panel
PinnedKeys == {"ctrl+w", "ctrl+t"}

\* the application's events on the panel together with direct calls of
\* the panel's closing operations
NextPinned ==
    \/ \E path \in PinnedPaths : OnDirectoryTreeFileSelected(path)
    \/ \E key \in PinnedKeys : PanelOnKey(key)
    \/ \E click \in PanelClicks : PanelMouseDown(click[1], click[2], click[3])
    \/ \E tab_id \in EditorTabIds : ActivateEditorTab(tab_id)
    \/ \E tab_id \in PanelTabIds : ActivatePanelTab(tab_id)
    \/ \E file_path \in PinnedPaths : RemoveMarkdownTab(file_path)
    \/ ClearAllTabs
    \/ CloseActiveTab
    \/ \E tab_id \in PanelTabIds : CloseTabById(tab_id)

SpecPinned == Init /\ [][NextPinned]_vars

\* the files the tree offers while buffers are edited and saved: a markdown
\* file first, then a source file
SavePaths == { PinnedOrder[i] : i \in 1..NumSavePaths }

\* files are opened, edited and saved, and tabs of both widgets are selected
\* and closed
NextSave ==
    \/ \E path \in SavePaths : OnDirectoryTreeFileSelected(path)
    \/ \E content \in Contents : EditBuffer(content)
    \/ ActionSaveFile
    \/ ActionCloseTab
    \/ \E key \in {"ctrl+s", "ctrl+w"} : PanelOnKey(key)
    \/ \E tab_id \in EditorTabIds : ActivateEditorTab(tab_id)
    \/ \E tab_id \in PanelTabIds : ActivatePanelTab(tab_id)

SpecSave == Init /\ [][NextSave]_vars

\* the first column of every editor title and the first column after the
\* last one
RECURSIVE EditorTitleStarts(_, _, _)
EditorTitleStarts(open_files, i, current_x) ==
    IF i > Len(open_files) THEN {current_x}
    ELSE {current_x}
             \cup EditorTitleStarts(open_files, i + 1,
                                    current_x + Len(Name(open_files[i].path)) + 4)

\* The presses the editor's tab manager is sent: a secondary-button press
\* on the header row at the first column of each title and after the last
\* one, one below the header row, and a primary-button press.
EditorClicks ==
    { <<x, 0, 3>> : x \in EditorTitleStarts(editor.open_files, 1, 0) }
      \cup { <<0, 1, 3>>, <<0, 0, 1>> }

\* the files the tree offers while editor tabs are closed: two markdown
\* files first, then a source file
ClosePaths == { AllPaths[i] : i \in 1..NumClosePaths }

\* the keys the editor's tab manager is sent: the close binding and an
\* unbound key
EditorKeys == {"ctrl+w", "x"}

\* files are opened and their editor tabs are closed in each of the three
\* ways: the close action, ctrl+w in the editor, a secondary press on a
\* title; close_tab is also called with an id of its caller's choice
NextClose ==
    \/ \E path \in ClosePaths : OnDirectoryTreeFileSelected(path)
    \/ ActionCloseTab
    \/ \E tab_id \in EditorTabIds \cup {""} : CloseTab(tab_id)
    \/ \E key \in EditorKeys : EditorOnKey(key)
    \/ \E click \in EditorClicks : EditorMouseDown(click[1], click[2], click[3])
    \/ \E tab_id \in EditorTabIds : ActivateEditorTab(tab_id)
    \/ \E tab_id \in PanelTabIds : ActivatePanelTab(tab_id)

SpecClose == Init /\ [][NextClose]_vars

\* the files the tree offers while previews are mirrored: two markdown
\* files first, then a source file
MirrorPaths == { AllPaths[i] : i \in 1..NumMirrorPaths }

\* files are selected and saved, editor tabs are closed from the binding,
\* and preview tabs are closed from the panel's key handler, by a
\* secondary-button press on a title and by close_active
NextMirror ==
    \/ \E path \in MirrorPaths : OnDirectoryTreeFileSelected(path)
    \/ ActionSaveFile
    \/ ActionCloseTab
    \/ PanelOnKey("ctrl+w")
    \/ \E click \in PanelClicks : PanelMouseDown(click[1], click[2], click[3])
    \/ CloseActiveTab
    \/ \E tab_id \in EditorTabIds : ActivateEditorTab(tab_id)
    \/ \E tab_id \in PanelTabIds : ActivatePanelTab(tab_id)

SpecMirror == Init /\ [][NextMirror]_vars

\* the files the tree offers while titles are pressed: two markdown files
\* first, then a source file
PressPaths == { AllPaths[i] : i \in 1..NumPressPaths }

\* the columns around the given title starts: the first column of every
\* title, the column after it, and the last column of the title before
Around(starts) ==
    starts \cup { x + 1 : x \in starts } \cup { x - 1 : x \in starts \ {0} }

\* the presses a widget is sent: the secondary button on the header row at
\* the given columns, the secondary button below the header row, and the
\* primary button on the header row
Presses(columns) ==
    { <<x, 0, 3>> : x \in columns } \cup { <<0, 1, 3>>, <<0, 0, 1>> }

\* the columns at the ends of every title of the editor and of the panel,
\* and the columns past the last title
EditorPresses == Presses(Around(EditorTitleStarts(editor.open_files, 1, 0)))

PanelPresses ==
    Presses(Around(IF right_panel.terminal
                   THEN {0} \cup TitleStarts(right_panel.open_files, 1,
                                             Len(TerminalTitle) + 4)
                   ELSE TitleStarts(right_panel.open_files, 1, 0)))

\* files are selected and the titles of both widgets are pressed
NextPress ==
    \/ \E path \in PressPaths : OnDirectoryTreeFileSelected(path)
    \/ \E click \in EditorPresses : EditorMouseDown(click[1], click[2], click[3])
    \/ \E click \in PanelPresses : PanelMouseDown(click[1], click[2], click[3])

SpecPress == Init /\ [][NextPress]_vars

\* the files the tree offers while keys are sent to the panel: a markdown
\* file first, then a source file
KeyPaths == { PinnedOrder[i] : i \in 1..NumKeyPaths }

\* the texts typed into a buffer before a key is sent to the panel
KeyContents == { AllContents[1], AllContents[2] }

\* keys that Syntia.BINDINGS does not bind
AllOtherKeys == << "x", "enter", "ctrl+c" >>

OtherKeys == { AllOtherKeys[i] : i \in 1..NumOtherKeys }

\* the keys the panel is sent: the four bound keys and unbound ones
PanelKeys == AppKeys \cup OtherKeys

\* the application's toggle binding, reached from outside the panel
ActionToggleTerminal ==
    /\ Running
    /\ LET r == action_toggle_terminal(right_panel, app)
       IN /\ right_panel' = r.right_panel
          /\ app' = r.app
          /\ last' = [NoOp EXCEPT !.op = "action_toggle_terminal",
                                  !.acted = << "toggle_terminal" >>]
    /\ pre' = Snapshot
    /\ UNCHANGED splitvars
    /\ UNCHANGED <<editor, disk, assigned, crashed>>

\* files are opened and edited, tabs of the panel are selected, the panel is
\* hidden and shown, and the panel is sent keys
NextKeys ==
    \/ \E path \in KeyPaths : OnDirectoryTreeFileSelected(path)
    \/ \E content \in KeyContents : EditBuffer(content)
    \/ \E key \in PanelKeys : PanelOnKey(key)
    \/ ActionToggleTerminal
    \/ \E tab_id \in PanelTabIds : ActivatePanelTab(tab_id)

SpecKeys == Init /\ [][NextKeys]_vars

\* the shell widget takes the focus: a press on it, or terminal.focus()
FocusTerminal ==
    /\ Running
    /\ app.focused # "terminal"
    /\ app' = [app EXCEPT !.focused = "terminal"]
    /\ last' = [NoOp EXCEPT !.op = "focus_terminal"]
    /\ pre' = Snapshot
    /\ UNCHANGED splitvars
    /\ UNCHANGED <<editor, right_panel, disk, assigned, crashed>>

\* the state and the record left by a key event of the shell widget: h is
\* what SyntiaTerminal.on_key gave, b what the application's binding gave
TerminalKeyDelivered(h, b, key) ==
    /\ editor' = b.editor
    /\ right_panel' = b.right_panel
    /\ disk' = b.disk
    /\ app' = b.app
    /\ last' = [NoOp EXCEPT !.op = "terminal_on_key", !.key = key, !.ok = b.ok,
                            !.notes = b.notes, !.stopped = h.stopped,
                            !.acted = IF b.action = "" THEN <<>> ELSE << b.action >>]

\* the event handled by the shell widget reaches the application's bindings
\* unless the widget stopped it
TerminalKeyBubbles(h, key, write_ok) ==
    TerminalKeyDelivered(h,
                         app_binding(editor, right_panel, disk, h.app,
                                     IF h.stopped THEN "" ELSE key, write_ok),
                         key)

\* The focused shell widget receives a key event.  SyntiaTerminal.on_key
\* runs first; an event it does not stop bubbles on to the application,
\* where a key of BINDINGS runs its action.
TerminalOnKey(key) ==
    /\ Running
    /\ app.focused = "terminal"
    /\ Len(app.send_queue) < MaxQueue
    /\ \E write_ok \in (IF key = "ctrl+s" THEN BOOLEAN ELSE {TRUE}) :
         TerminalKeyBubbles(terminal_on_key(app, key), key, write_ok)
    /\ pre' = Snapshot
    /\ UNCHANGED splitvars
    /\ UNCHANGED <<assigned, crashed>>

\* the PTY layer takes the next entry off the outbound queue
ShellConsumes ==
    /\ Running
    /\ app.send_queue # <<>>
    /\ app' = [app EXCEPT !.send_queue = Tail(app.send_queue)]
    /\ last' = [NoOp EXCEPT !.op = "shell_consumes"]
    /\ pre' = Snapshot
    /\ UNCHANGED splitvars
    /\ UNCHANGED <<editor, right_panel, disk, assigned, crashed>>

\* the keys the shell widget is sent: the four bound keys, the key that
\* releases the focus, a key without a character, and unbound keys
ShellKeys == APP_KEYBINDINGS \cup {"ctrl+f1", "ctrl+f2"} \cup OtherKeys

\* a file is opened, the shell is started by the first toggle, takes the
\* focus and is sent keys
NextShell ==
    \/ \E path \in KeyPaths : OnDirectoryTreeFileSelected(path)
    \/ ActionToggleTerminal
    \/ FocusTerminal
    \/ \E key \in ShellKeys : TerminalOnKey(key)
    \/ ShellConsumes

SpecShell == Init /\ [][NextShell]_vars

\* the keys typed into the focused shell: keys that have a character, the
\* bound keys, the key that releases the focus and a key without a character
QueueKeys ==
    { AllOtherKeys[i] : i \in 1..NumQueueKeys }
        \cup APP_KEYBINDINGS \cup {"ctrl+f1", "ctrl+f2"}

\* the shell is started by the first toggle, takes the focus, is sent keys,
\* and the PTY layer drains the queue
NextQueue ==
    \/ ActionToggleTerminal
    \/ FocusTerminal
    \/ \E key \in QueueKeys : TerminalOnKey(key)
    \/ ShellConsumes

SpecQueue == Init /\ [][NextQueue]_vars

\* the application is ready: delivered once per run
OnReady ==
    /\ Running
    /\ ~app.ready
    /\ app' = on_ready(right_panel, app)
    /\ last' = [NoOp EXCEPT !.op = "on_ready"]
    /\ pre' = Snapshot
    /\ UNCHANGED splitvars
    /\ UNCHANGED <<editor, right_panel, disk, assigned, crashed>>

\* the toggle binding of the application that keeps the terminal below the
\* editor
ToggleTerminalBelow ==
    /\ Running
    /\ app' = toggle_terminal_below(app)
    /\ last' = [NoOp EXCEPT !.op = "toggle_terminal_below",
                            !.acted = << "toggle_terminal" >>]
    /\ pre' = Snapshot
    /\ UNCHANGED splitvars
    /\ UNCHANGED <<editor, right_panel, disk, assigned, crashed>>

\* the keys pressed while the terminal is started and toggled
StartKeys == {"ctrl+t"} \cup OtherKeys

\* the application becomes ready, the panel and the terminal are toggled
\* from the binding, from the panel and from the focused shell, and keys
\* are pressed
NextStart ==
    \/ OnReady
    \/ ActionToggleTerminal
    \/ ToggleTerminalBelow
    \/ FocusTerminal
    \/ \E key \in StartKeys : PanelOnKey(key)
    \/ \E key \in StartKeys : TerminalOnKey(key)
    \/ ShellConsumes

SpecStart == Init /\ [][NextStart]_vars

----------------------------------------------------------------------------
(* Pointer events on the splitters.                                        *)

Coords == { CoordStep * k : k \in 0..MaxSteps }

\* the splitters in a narrow or a wide container, nothing open
InitSplit ==
    /\ editor = EditorInit
    /\ right_panel = RightPanelInit(TRUE)
    /\ disk \in {[file_path \in Paths |-> AllContents[1]]}
    /\ assigned = {}
    /\ crashed = FALSE
    /\ app = AppInit
    /\ splitters \in SplittersIn({NarrowWidth, WideWidth}, {NarrowHeight, WideHeight})
    /\ mouse_capture = "none"
    /\ last = NoOp
    /\ pre = Snapshot

\* a pointer event reaches a splitter when no other widget holds the pointer
Delivered(which) == Running /\ mouse_capture \in {"none", which}

tabvars == <<editor, right_panel, disk, assigned, crashed, app>>

\* VerticalSplitter.on_mouse_down: self.capture_mouse(True)
VMouseDown(screen_x) ==
    /\ Delivered("v")
    /\ splitters' = [splitters EXCEPT !.v = splitter_on_mouse_down(splitters.v, screen_x)]
    /\ mouse_capture' = capture_on_mouse_down("v", mouse_capture)
    /\ last' = [NoOp EXCEPT !.op = "v_mouse_down", !.x = screen_x]
    /\ UNCHANGED <<tabvars, pre>>

VMouseMove(screen_x) ==
    /\ Delivered("v")
    /\ splitters' = [splitters EXCEPT !.v = v_on_mouse_move(splitters.v, screen_x)]
    /\ last' = [NoOp EXCEPT !.op = "v_mouse_move", !.x = screen_x]
    /\ UNCHANGED <<tabvars, mouse_capture, pre>>

\* VerticalSplitter.on_mouse_up: self.capture_mouse(False) when dragging
VMouseUp ==
    /\ Delivered("v")
    /\ splitters' = [splitters EXCEPT !.v = splitter_on_mouse_up(splitters.v)]
    /\ mouse_capture' = capture_on_mouse_up(splitters.v, mouse_capture)
    /\ last' = [NoOp EXCEPT !.op = "v_mouse_up"]
    /\ UNCHANGED <<tabvars, pre>>

\* HorizontalSplitter.on_mouse_down
HMouseDown(screen_y) ==
    /\ Delivered("h")
    /\ splitters' = [splitters EXCEPT !.h = splitter_on_mouse_down(splitters.h, screen_y)]
    /\ mouse_capture' = capture_on_mouse_down("h", mouse_capture)
    /\ last' = [NoOp EXCEPT !.op = "h_mouse_down", !.y = screen_y]
    /\ UNCHANGED <<tabvars, pre>>

HMouseMove(screen_y) ==
    /\ Delivered("h")
    /\ splitters' = [splitters EXCEPT !.h = h_on_mouse_move(splitters.h, screen_y)]
    /\ last' = [NoOp EXCEPT !.op = "h_mouse_move", !.y = screen_y]
    /\ UNCHANGED <<tabvars, mouse_capture, pre>>

\* HorizontalSplitter.on_mouse_up
HMouseUp ==
    /\ Delivered("h")
    /\ splitters' = [splitters EXCEPT !.h = splitter_on_mouse_up(splitters.h)]
    /\ mouse_capture' = capture_on_mouse_up(splitters.h, mouse_capture)
    /\ last' = [NoOp EXCEPT !.op = "h_mouse_up"]
    /\ UNCHANGED <<tabvars, pre>>

NextSplit ==
    \/ \E c \in Coords : VMouseDown(c)
    \/ \E c \in Coords : VMouseMove(c)
    \/ VMouseUp
    \/ \E c \in Coords : HMouseDown(c)
    \/ \E c \in Coords : HMouseMove(c)
    \/ HMouseUp

SpecSplit == InitSplit /\ [][NextSplit]_vars

----------------------------------------------------------------------------
(* Properties of the editor tab manager.                                   *)

\* the last operation was add_file_tab on a path that already had a tab
OpenedExisting ==
    /\ last.op = "add_file_tab"
    /\ last.path \in DictValues(pre.editor.open_files)

\* the last operation was add_file_tab and it created a tab
OpenedNew ==
    /\ last.op = "add_file_tab"
    /\ last.path \notin DictValues(pre.editor.open_files)
    /\ ~last.raised

\* the tab a successful close_tab removed
ClosedId == IF last.tab = "" THEN pre.editor.active ELSE last.tab

ClosedOk == last.op = "close_tab" /\ last.ok

\* C1: in every state reachable by open(path) and close(tab_id), no two
\* open editor tab ids are bound to the same path.
C1_PathUnique ==
    \A i, j \in 1..Len(editor.open_files) :
        i # j => editor.open_files[i].path # editor.open_files[j].path

\* open(path) was called on an already open path while another tab is open
C1_Witness ==
    /\ OpenedExisting
    /\ Len(editor.open_files) >= 2

\* C2: open(path) on a path that already has a tab returns that tab's id,
\* makes it the active tab and leaves the tab_id -> path mapping as it was.
C2_ReopenIsIdempotent ==
    OpenedExisting =>
        /\ last.ret = FindPath(pre.editor.open_files, last.path)
        /\ ~last.raised
        /\ editor.active = last.ret
        /\ editor.open_files = pre.editor.open_files
        /\ Len(editor.open_files) = Len(pre.editor.open_files)

\* an already open path was reopened while another tab was the active one
C2_Witness ==
    /\ OpenedExisting
    /\ pre.editor.active # last.ret
    /\ editor.active = last.ret

\* C3 (as claimed): the id given to a newly created editor tab differs from
\* every id assigned earlier in the session.
C3_IdsNeverRecycled ==
    OpenedNew => last.ret \notin pre.assigned

\* C4: the active tab id is null or a key of the mapping, and it is null
\* only when the mapping is empty.
C4_ActiveValid ==
    /\ editor.active = "" \/ DictHas(editor.open_files, editor.active)
    /\ editor.active = "" => Len(editor.open_files) = 0

\* the active tab was closed while other tabs stayed open
C4_Witness ==
    /\ ClosedOk
    /\ pre.editor.active = ClosedId
    /\ Len(editor.open_files) >= 1

\* C5: closing the only open tab leaves the active id null and
\* get_active_path none; closing a tab while another tab stays open leaves
\* the active id non-null and bound to a path.
C5_ActiveAfterClose ==
    /\ (ClosedOk /\ Len(pre.editor.open_files) = 1) =>
           (editor.active = "" /\ get_active_file_path(editor) = NoPath)
    /\ (ClosedOk /\ Len(pre.editor.open_files) >= 2) =>
           (editor.active # "" /\ get_active_file_path(editor) # NoPath)

\* the active, rightmost tab was closed while another tab stayed open
C5_Witness ==
    /\ ClosedOk
    /\ Len(pre.editor.open_files) >= 2
    /\ pre.editor.active = ClosedId
    /\ pre.editor.open_files[Len(pre.editor.open_files)].id = ClosedId

\* the only open tab was closed
C5_WitnessOnly ==
    /\ ClosedOk
    /\ Len(pre.editor.open_files) = 1

----------------------------------------------------------------------------
(* Properties of the preview panel.                                        *)

\* the number of entries of a dict bound to file_path
Bound(d, file_path) == Cardinality({ i \in 1..Len(d) : d[i].path = file_path })

\* the last two calls were add_markdown_tab(path, c1), add_markdown_tab(path, c2)
\* with c1 # c2
AddedTwice == last.op = "add_markdown_tab" /\ last.prev.op = "add_markdown_tab"

\* C6 (as claimed): add_or_update_markdown(path, c1) followed by
\* add_or_update_markdown(path, c2), c1 # c2, leaves exactly one preview tab
\* bound to path, returns the same tab_id both times, and that tab shows c2
\* and is the active tab.
C6_AddTwiceLeavesOne ==
    AddedTwice =>
        /\ Bound(right_panel.open_files, last.path) = 1
        /\ ~last.prev.raised /\ ~last.raised
        /\ last.ret # "" /\ last.ret = last.prev.ret
        /\ PaneText(right_panel.panes, last.ret) = last.content
        /\ right_panel.active = last.ret

\* the operations that try to close the pinned tab without going through
\* the editor: close_by_id(terminal_tab), close_active while it is active, a
\* secondary-button press on its title
TriedToClosePinned ==
    \/ last.op = "close_tab_by_id" /\ last.tab = terminal_tab_id
    \/ last.op = "close_active_tab" /\ pre.right_panel.active = terminal_tab_id
    \/ last.op = "panel_on_mouse_down" /\ last.tab = terminal_tab_id

\* ctrl+w received by the panel while the pinned tab is active
CtrlWOnPinned ==
    /\ last.op = "panel_on_key"
    /\ last.key = "ctrl+w"
    /\ pre.right_panel.active = terminal_tab_id

PinnedPresent ==
    right_panel.terminal =>
        /\ terminal_tab_id \in PaneIds(right_panel.panes)
        /\ ~DictHas(right_panel.open_files, terminal_tab_id)

PreviewTabsUnchanged ==
    /\ right_panel.open_files = pre.right_panel.open_files
    /\ right_panel.panes = pre.right_panel.panes

\* C7 (as claimed): the pinned tab is present in every reachable state, and
\* every attempt to close it, ctrl+w while it is active included, leaves
\* every other tab's id and path binding unchanged.
C7_PinnedAndOthersUntouched ==
    /\ PinnedPresent
    /\ (TriedToClosePinned \/ CtrlWOnPinned) => PreviewTabsUnchanged

\* C7 (amended): the pinned tab is present in every reachable state;
\* close_by_id(terminal_tab), close_active while it is active and a
\* secondary-button press on its title leave every preview tab unchanged;
\* ctrl+w while it is active leaves the preview tabs unchanged except the
\* one bound to the markdown file of the editor tab it closes, which goes.
C7_PinnedStays ==
    /\ PinnedPresent
    /\ TriedToClosePinned => PreviewTabsUnchanged
    /\ CtrlWOnPinned =>
          LET closed == get_active_file_path(pre.editor)
          IN /\ right_panel.open_files =
                    SelectSeq(pre.right_panel.open_files,
                              LAMBDA e : ~(IsMarkdown(closed) /\ e.path = closed))
             /\ right_panel.panes =
                    SelectSeq(pre.right_panel.panes,
                              LAMBDA q : q.id \in PaneIds(right_panel.panes))
             /\ PaneIds(right_panel.panes) =
                    DictKeys(right_panel.open_files) \cup {terminal_tab_id}

\* ctrl+w on the active pinned tab closed a markdown editor tab together
\* with its preview
C7_Witness ==
    /\ CtrlWOnPinned
    /\ IsMarkdown(get_active_file_path(pre.editor))
    /\ Len(right_panel.open_files) < Len(pre.right_panel.open_files)

\* a secondary-button press on the pinned title while a preview tab is open
C7_WitnessPress ==
    /\ last.op = "panel_on_mouse_down" /\ last.tab = terminal_tab_id
    /\ Len(right_panel.open_files) >= 1

----------------------------------------------------------------------------
(* Properties of the splitters.                                            *)

\* C8: whatever the pointer moves of a drag, the size a splitter assigns
\* to its pane is never below the minimum bound (16 / 5 cells).
C8_NeverBelowMin ==
    /\ splitters.v.assigned => splitters.v.size >= VMinWidth
    /\ splitters.h.assigned => splitters.h.size >= HMinHeight

\* one move of the vertical splitter whose delta would take the pane under
\* its minimum
C8_Witness ==
    /\ last.op = "v_mouse_move"
    /\ splitters.v.dragging
    /\ splitters.v.start_size + (last.x - splitters.v.start) < VMinWidth
    /\ splitters.v.extent - ReservedOpposite >= VMinWidth

\* the same for the horizontal splitter
C8_WitnessH ==
    /\ last.op = "h_mouse_move"
    /\ splitters.h.dragging
    /\ splitters.h.start_size - (last.y - splitters.h.start) < HMinHeight

\* C9 (as claimed): for every container extent the assigned size is never
\* above the extent minus the reserve of 10 cells.
C9_NeverAboveMax ==
    /\ splitters.v.assigned => splitters.v.size <= splitters.v.extent - ReservedOpposite
    /\ splitters.h.assigned => splitters.h.size <= splitters.h.extent - ReservedOpposite

\* C9 (amended): the assigned size is never above the larger of the extent
\* minus the reserve and the minimum bound; so it is never above the extent
\* minus the reserve when that is at least the minimum bound.
C9_NeverAboveMaxOrMin ==
    /\ splitters.v.assigned =>
          splitters.v.size <= Max(splitters.v.extent - ReservedOpposite, VMinWidth)
    /\ splitters.h.assigned =>
          splitters.h.size <= Max(splitters.h.extent - ReservedOpposite, HMinHeight)

\* one move of the vertical splitter whose delta would take the pane over
\* the extent minus the reserve, in a container wide enough for both bounds
C9_Witness ==
    /\ last.op = "v_mouse_move"
    /\ splitters.v.dragging
    /\ splitters.v.extent - ReservedOpposite >= VMinWidth
    /\ splitters.v.start_size + (last.x - splitters.v.start)
           > splitters.v.extent - ReservedOpposite
    /\ splitters.v.size = splitters.v.extent - ReservedOpposite

----------------------------------------------------------------------------
(* Properties of the application.                                          *)

\* the file tree reported the selection of a markdown file that had no
\* editor tab
SelectedNewMarkdown ==
    /\ last.op = "file_selected"
    /\ IsFile(last.path)
    /\ last.path.suffix = ".md"
    /\ last.path \notin DictValues(pre.editor.open_files)

\* C10 (as claimed): after the selection of a markdown file that was not
\* open, exactly one editor tab and exactly one preview tab are bound to it.
C10_SelectOpensBoth ==
    SelectedNewMarkdown =>
        /\ Bound(editor.open_files, last.path) = 1
        /\ Bound(right_panel.open_files, last.path) = 1

\* a save of the active editor tab succeeded, by the application's binding
\* or by ctrl+s received by the panel
SavedOk ==
    /\ \/ last.op = "action_save_file"
       \/ last.op = "panel_on_key" /\ last.key = "ctrl+s"
    /\ last.ok

\* the path saved and the buffer text at the moment of the save
SavedPath == get_active_file_path(pre.editor)

SavedText == PaneText(pre.editor.panes, pre.editor.active)

\* C11: after a successful save of the active editor tab whose file is
\* markdown, the preview tab bound to that path shows the text that was saved.
C11_PreviewShowsSaved ==
    (SavedOk /\ IsMarkdown(SavedPath)) =>
        \A i \in 1..Len(right_panel.open_files) :
            right_panel.open_files[i].path = SavedPath =>
                PaneText(right_panel.panes, right_panel.open_files[i].id) = SavedText

\* an edited markdown buffer was saved while its preview showed other text
C11_Witness ==
    /\ SavedOk
    /\ IsMarkdown(SavedPath)
    /\ SavedPath \in DictValues(pre.right_panel.open_files)
    /\ PaneText(pre.right_panel.panes, FindPath(pre.right_panel.open_files, SavedPath))
           # SavedText

----------------------------------------------------------------------------
(* C12: closing a markdown editor tab retracts its preview only.           *)

\* the last step closed editor tabs by the close action, by ctrl+w in the
\* editor or by a secondary press on a title
ClosedByUser ==
    /\ last.op \in {"action_close_tab", "editor_on_key", "editor_on_mouse_down"}
    /\ last.closed # <<>>

ClosedPaths == { last.closed[i] : i \in 1..Len(last.closed) }

\* the preview tabs of rp that are bound to none of the paths: id, path and
\* rendered content, in order
PreviewsOfOthers(rp, paths) ==
    LET kept == SelectSeq(rp.open_files, LAMBDA e : e.path \notin paths)
    IN [i \in 1..Len(kept) |->
          [id |-> kept[i].id, path |-> kept[i].path,
           mounted |-> kept[i].id \in PaneIds(rp.panes),
           text |-> PaneText(rp.panes, kept[i].id)]]

\* C12: after a markdown editor tab was closed successfully by the close
\* action, by ctrl+w in the editor or by a secondary press on its title, no
\* preview tab is bound to its path and the preview tabs of the other paths
\* are as they were.
C12_CloseRetractsPreview ==
    ClosedByUser =>
        /\ \A file_path \in ClosedPaths :
               IsMarkdown(file_path) =>
                   file_path \notin DictValues(right_panel.open_files)
        /\ PreviewsOfOthers(right_panel, ClosedPaths)
               = PreviewsOfOthers(pre.right_panel, ClosedPaths)

\* a markdown tab with a preview was closed while another preview was open
C12_Witness ==
    /\ ClosedByUser
    /\ \E file_path \in ClosedPaths :
           /\ IsMarkdown(file_path)
           /\ file_path \in DictValues(pre.right_panel.open_files)
    /\ PreviewsOfOthers(pre.right_panel, ClosedPaths) # <<>>

\* ctrl+w in the editor closed a markdown tab that had a preview
C12_WitnessKey ==
    /\ ClosedByUser
    /\ last.op = "editor_on_key"
    /\ \E file_path \in ClosedPaths :
           /\ IsMarkdown(file_path)
           /\ file_path \in DictValues(pre.right_panel.open_files)

\* the same, reached by a secondary press on the tab's title
C12_WitnessPress == C12_Witness /\ last.op = "editor_on_mouse_down"

----------------------------------------------------------------------------
(* C13: ctrl+w in the panel while the pinned tab is active.                *)

\* the editor lost exactly its formerly active tab, when it had one
EditorActiveClosed ==
    LET was == pre.editor.active
    IN IF was = "" \/ ~DictHas(pre.editor.open_files, was)
       THEN editor = pre.editor
       ELSE /\ editor.open_files = DictDel(pre.editor.open_files, was)
            /\ editor.panes = RemovePane(pre.editor.panes, was)

\* C13 (as claimed): when the panel receives ctrl+w while the pinned tab is
\* active, the editor's active tab, if any, is closed and the panel's own
\* set of tabs is left unchanged.
C13_DelegatesAndPanelUnchanged ==
    CtrlWOnPinned => (EditorActiveClosed /\ PreviewTabsUnchanged)

\* C13 (amended): when the panel receives ctrl+w while the pinned tab is
\* active, the editor's active tab, if any, is closed; the panel keeps the
\* pinned tab, stays on it, and keeps every preview tab except the one bound
\* to the closed tab's markdown file.
C13_DelegatesAndKeepsOthers ==
    CtrlWOnPinned =>
        /\ EditorActiveClosed
        /\ right_panel.active = terminal_tab_id
        /\ terminal_tab_id \in PaneIds(right_panel.panes)
        /\ LET closed == get_active_file_path(pre.editor)
           IN PreviewsOfOthers(right_panel, {closed})
                  = PreviewsOfOthers(pre.right_panel, {closed})

\* ctrl+w on the active pinned tab closed the editor's active tab, a
\* markdown file whose preview was open, while another editor tab stayed
C13_Witness ==
    /\ CtrlWOnPinned
    /\ Len(editor.open_files) < Len(pre.editor.open_files)
    /\ editor.open_files # <<>>
    /\ get_active_file_path(pre.editor) \in DictValues(pre.right_panel.open_files)

----------------------------------------------------------------------------
(* C14: ctrl+w in the panel while a preview tab is active.                 *)

\* ctrl+w received by the panel while a preview tab is active
CtrlWOnPreview ==
    /\ last.op = "panel_on_key"
    /\ last.key = "ctrl+w"
    /\ pre.right_panel.active \notin {"", terminal_tab_id}

\* C14: when the panel receives ctrl+w while a preview tab is active,
\* exactly that preview tab is removed, and the editor's tabs, active tab
\* and buffers are unchanged.
C14_ClosesThatPreviewOnly ==
    CtrlWOnPreview =>
        LET was == pre.right_panel.active
        IN /\ DictHas(pre.right_panel.open_files, was)
           /\ right_panel.open_files = DictDel(pre.right_panel.open_files, was)
           /\ right_panel.panes = RemovePane(pre.right_panel.panes, was)
           /\ Len(right_panel.panes) = Len(pre.right_panel.panes) - 1
           /\ editor = pre.editor

\* ctrl+w on an active preview tab while its file is open in the editor
\* next to another file
C14_Witness ==
    /\ CtrlWOnPreview
    /\ DictGet(pre.right_panel.open_files, pre.right_panel.active)
           \in DictValues(editor.open_files)
    /\ Len(editor.open_files) > 1

----------------------------------------------------------------------------
(* C15: the four bound keys in the panel.                                  *)

\* the panel received one of the four bound keys
PanelGotBoundKey == last.op = "panel_on_key" /\ last.key \in AppKeys

\* the actions that match a bound key
Matching(key) ==
    CASE key = "ctrl+s" -> {"save_file"}
      [] key = "ctrl+t" -> {"toggle_terminal"}
      [] key = "ctrl+q" -> {"quit"}
      [] key = "ctrl+w" -> {"close_tab", "close_active_tab"}
      [] OTHER -> {}

\* what one run of the key's action leaves behind
ActedOnce ==
    CASE last.key = "ctrl+s" ->
             /\ last.ok => disk[get_active_file_path(pre.editor)]
                               = PaneText(pre.editor.panes, pre.editor.active)
             /\ ~last.ok => disk = pre.disk
      [] last.key = "ctrl+t" ->
             app.right_panel_collapsed = ~pre.app.right_panel_collapsed
      [] last.key = "ctrl+q" -> app.exited
      [] last.key = "ctrl+w" ->
             Len(pre.editor.open_files) + Len(pre.right_panel.open_files)
                 - (Len(editor.open_files) + Len(right_panel.open_files))
                 \in (IF pre.right_panel.active = terminal_tab_id
                      THEN IF pre.editor.active = "" THEN {0}
                           ELSE IF get_active_file_path(pre.editor)
                                       \in DictValues(pre.right_panel.open_files)
                           THEN {2} ELSE {1}
                      ELSE {1})
      [] OTHER -> FALSE

\* C15: for each of ctrl+s, ctrl+t, ctrl+q and ctrl+w received by the
\* panel, whichever tab is active, the matching action is performed exactly
\* once for that keystroke and the keystroke is stopped, so that no other
\* handler acts on it.
C15_BoundKeyActsOnceAndStops ==
    PanelGotBoundKey =>
        /\ last.stopped
        /\ Len(last.acted) = 1
        /\ last.acted[1] \in Matching(last.key)
        /\ ActedOnce

\* the panel was hidden by ctrl+t received while a preview tab was active
C15_Witness ==
    /\ PanelGotBoundKey
    /\ last.key = "ctrl+t"
    /\ pre.right_panel.active \notin {"", terminal_tab_id}
    /\ app.right_panel_collapsed

\* ctrl+s received while the pinned tab was active wrote an edited buffer
C15_WitnessSave ==
    /\ PanelGotBoundKey
    /\ last.key = "ctrl+s"
    /\ last.ok
    /\ pre.right_panel.active = terminal_tab_id
    /\ disk # pre.disk

----------------------------------------------------------------------------
(* C16: every other key in the panel.                                      *)

\* the panel received a key that is none of the four bound keys
PanelGotOtherKey == last.op = "panel_on_key" /\ last.key \notin AppKeys

\* C16: for every key other than ctrl+s, ctrl+t, ctrl+q and ctrl+w the
\* panel's key handler neither stops nor consumes the keystroke and changes
\* no panel state: tab set, active tab and preview contents stay.
C16_OtherKeyPassesThrough ==
    PanelGotOtherKey =>
        /\ ~last.stopped
        /\ ~last.prevented
        /\ last.acted = <<>>
        /\ right_panel = pre.right_panel

\* an unbound key received while the pinned tab is active next to a preview
C16_Witness ==
    /\ PanelGotOtherKey
    /\ pre.right_panel.active = terminal_tab_id
    /\ pre.right_panel.open_files # <<>>

----------------------------------------------------------------------------
(* C17: the four bound keys while the shell has the focus.                 *)

\* the focused shell received one of the four bound keys
ShellGotBoundKey == last.op = "terminal_on_key" /\ last.key \in AppKeys

----------------------------------------------------------------------------
(* C18: ctrl+w delivered to the editor's tab manager.                      *)

\* the editor's tab manager received ctrl+w
EditorGotCtrlW == last.op = "editor_on_key" /\ last.key = "ctrl+w"

\* C18: a ctrl+w keystroke delivered to the editor's tab manager closes the
\* active tab and is not propagated further: no other handler acts on the
\* keystroke, and one keypress closes at most one editor tab.
C18_CtrlWClosesOneTab ==
    EditorGotCtrlW =>
        /\ last.stopped
        /\ last.acted = << "close_tab" >>
        /\ Len(last.closed) <= 1
        /\ Len(pre.editor.open_files) - Len(editor.open_files) <= 1

\* one ctrl+w in the editor never closes two tabs
C18_AtMostOneClosed ==
    EditorGotCtrlW => Len(pre.editor.open_files) - Len(editor.open_files) <= 1

----------------------------------------------------------------------------
(* C19: the refusals of close_active and close_by_id.                      *)

\* close_active was called while the pinned tab was active
CloseActiveOnPinned ==
    last.op = "close_active_tab" /\ pre.right_panel.active = terminal_tab_id

\* close_by_id was called with the pinned tab's id
CloseByIdOnPinned ==
    last.op = "close_tab_by_id" /\ last.tab = terminal_tab_id

\* the step refused: it returned false, left the panel as it was and told
\* the user that the tab cannot be closed
RefusedAloud ==
    /\ ~last.ok
    /\ right_panel = pre.right_panel
    /\ last.notes = << "Terminal tab cannot be closed" >>

\* C19: close_active, when the pinned tab is active, and
\* close_by_id(terminal_tab) both refuse, return false, leave the panel
\* unchanged and emit a "cannot be closed" notification.
C19_BothRefuseAloud ==
    (CloseActiveOnPinned \/ CloseByIdOnPinned) => RefusedAloud

\* close_active on the active pinned tab refuses, returns false, leaves the
\* panel unchanged and notifies
C19_CloseActiveRefusesAloud ==
    CloseActiveOnPinned => RefusedAloud

\* close_by_id(terminal_tab) refuses, returns false and leaves the panel
\* unchanged
C19_CloseByIdRefuses ==
    CloseByIdOnPinned => (~last.ok /\ right_panel = pre.right_panel)

----------------------------------------------------------------------------
(* C20: update_markdown.                                                   *)

UpdateCalled == last.op = "update_markdown_tab"

\* the tab bound to the path of the last call before the call, "" for none
UpdatedTab == FindPath(pre.right_panel.open_files, last.path)

\* C20: update_markdown(path, content) returns false and leaves tab set,
\* active tab and every tab's content unchanged when no preview tab is bound
\* to path; when one is, it returns true, replaces the content of that tab
\* alone with content and creates no tab.
C20_UpdateInPlaceOrFail ==
    UpdateCalled =>
        IF last.path \notin DictValues(pre.right_panel.open_files)
        THEN ~last.ok /\ right_panel = pre.right_panel
        ELSE /\ last.ok
             /\ right_panel.open_files = pre.right_panel.open_files
             /\ right_panel.active = pre.right_panel.active
             /\ Len(right_panel.panes) = Len(pre.right_panel.panes)
             /\ \A i \in 1..Len(right_panel.panes) :
                    LET now == right_panel.panes[i]
                        was == pre.right_panel.panes[i]
                    IN /\ now.id = was.id
                       /\ now.title = was.title
                       /\ now.text = IF was.id = UpdatedTab THEN last.content
                                     ELSE was.text

\* an update replaced the content of a bound tab that is not the active one
\* while another preview showed a different text
C20_Witness ==
    /\ UpdateCalled
    /\ UpdatedTab # ""
    /\ UpdatedTab # pre.right_panel.active
    /\ PaneText(pre.right_panel.panes, UpdatedTab) # last.content
    /\ \E i \in 1..Len(right_panel.open_files) :
           /\ right_panel.open_files[i].id # UpdatedTab
           /\ PaneText(right_panel.panes, right_panel.open_files[i].id) # last.content

\* an update for a path without a tab was refused while other tabs were open
C20_WitnessUnbound ==
    /\ UpdateCalled
    /\ UpdatedTab = ""
    /\ pre.right_panel.open_files # <<>>

----------------------------------------------------------------------------
(* C21: remove_markdown.                                                   *)

RemoveCalled == last.op = "remove_markdown_tab"

\* C21: remove_markdown(path) removes exactly the preview tab bound to path
\* and returns true, leaving id, path and content of every other preview tab
\* and the pinned tab as they were; when no tab is bound to path it returns
\* false and changes nothing.
C21_RemoveExactlyBound ==
    RemoveCalled =>
        IF last.path \notin DictValues(pre.right_panel.open_files)
        THEN ~last.ok /\ right_panel = pre.right_panel
        ELSE /\ last.ok
             /\ last.path \notin DictValues(right_panel.open_files)
             /\ Len(right_panel.open_files) = Len(pre.right_panel.open_files) - 1
             /\ Len(right_panel.panes) = Len(pre.right_panel.panes) - 1
             /\ PreviewsOfOthers(right_panel, {last.path})
                    = PreviewsOfOthers(pre.right_panel, {last.path})
             /\ (terminal_tab_id \in PaneIds(pre.right_panel.panes)
                    => terminal_tab_id \in PaneIds(right_panel.panes))

\* the older of two previews was removed
C21_Witness ==
    /\ RemoveCalled
    /\ last.ok
    /\ Len(pre.right_panel.open_files) > 1
    /\ pre.right_panel.open_files[1].path = last.path

\* a removal for a path without a tab was refused while a preview was open
C21_WitnessUnbound ==
    /\ RemoveCalled
    /\ ~last.ok
    /\ pre.right_panel.open_files # <<>>

----------------------------------------------------------------------------
(* C22: closing a tab that is not open.                                    *)

\* the id the last close was aimed at
AimedAt ==
    IF last.op = "close_tab" /\ last.tab # "" THEN last.tab ELSE pre.editor.active

\* close_tab, or the application's close action, was aimed at no open tab
ClosedMiss ==
    /\ last.op \in {"close_tab", "action_close_tab"}
    /\ (AimedAt = "" \/ ~DictHas(pre.editor.open_files, AimedAt))

\* C22: close(tab_id) with a tab_id that is not an open tab, or with no
\* active tab when tab_id is defaulted, returns false, raises nothing and
\* leaves the editor's mapping, its active tab and the panel unchanged; the
\* application's close action then emits only "No tab to close!".
C22_CloseMissIsNoOp ==
    ClosedMiss =>
        /\ ~last.ok
        /\ ~last.raised
        /\ ~crashed
        /\ editor = pre.editor
        /\ right_panel = pre.right_panel
        /\ last.notes = IF last.op = "action_close_tab"
                        THEN << "No tab to close!" >> ELSE <<>>

\* close_tab was called with an id that is not open while a markdown file
\* was open with its preview
C22_Witness ==
    /\ ClosedMiss
    /\ last.op = "close_tab"
    /\ last.tab # ""
    /\ pre.editor.open_files # <<>>
    /\ pre.right_panel.open_files # <<>>

\* the application's close action found no tab to close after every opened
\* tab had been closed
C22_WitnessAction ==
    /\ ClosedMiss
    /\ last.op = "action_close_tab"
    /\ assigned # {}

----------------------------------------------------------------------------
(* C23: a save that fails.                                                 *)

\* the application's save action ran, from its binding or from the panel
SaveCalled ==
    \/ last.op = "action_save_file"
    \/ last.op = "panel_on_key" /\ last.key = "ctrl+s"

\* there was no active tab with a file to save
NothingToSave == get_active_file_path(pre.editor) = NoPath

\* C23: save_active returns false when there is no active tab or when the
\* write fails; then the editor's buffers, mapping and active tab are
\* unchanged, the panel is not refreshed and the user is told of the failure.
C23_FailedSaveChangesNothing ==
    SaveCalled =>
        /\ (NothingToSave \/ ~last.write_ok) => ~last.ok
        /\ ~last.ok =>
               /\ editor = pre.editor
               /\ right_panel = pre.right_panel
               /\ last.notes = << "No file to save or save failed!" >>

\* the write of an edited markdown buffer failed while its preview showed
\* the older text
C23_Witness ==
    /\ SaveCalled
    /\ ~last.write_ok
    /\ IsMarkdown(SavedPath)
    /\ SavedPath \in DictValues(pre.right_panel.open_files)
    /\ PaneText(pre.right_panel.panes, FindPath(pre.right_panel.open_files, SavedPath))
           # SavedText

\* a save was asked for with no tab open
C23_WitnessNoTab == SaveCalled /\ NothingToSave

----------------------------------------------------------------------------
(* C24: the shell is started once.                                         *)

\* C24: over any sequence of application events (ready, any number of
\* toggles of the panel or of the terminal, key presses) the shell
\* session's start() is invoked at most once per run.
C24_StartAtMostOnce ==
    /\ app.start_calls <= 1
    /\ app.below.start_calls <= 1

\* the panel was shown again after the shell had been started, and the
\* application is ready
C24_Witness ==
    /\ last.acted = << "toggle_terminal" >>
    /\ last.op # "toggle_terminal_below"
    /\ ~app.right_panel_collapsed
    /\ pre.app.start_calls = 1
    /\ app.ready

\* the terminal below the editor was shown a second time
C24_WitnessBelow ==
    /\ last.op = "toggle_terminal_below"
    /\ app.below.display
    /\ pre.app.below.start_calls = 1

----------------------------------------------------------------------------
(* C25: one drag at a time.                                                *)

\* The pane sizes and the drag state of a splitter.
Gesture(self) == << self.size, self.assigned, self.dragging, self.start, self.start_size >>

\* C25: at most one splitter is in the dragging state at any time, and
\* while one is dragging every pointer-move and pointer-up is delivered to
\* it alone: no step changes the other splitter's pane size or drag state
\* during that gesture.
C25_OneDragAtATime ==
    /\ [](~(splitters.v.dragging /\ splitters.h.dragging))
    /\ [][/\ splitters.v.dragging => Gesture(splitters.h)' = Gesture(splitters.h)
          /\ splitters.h.dragging => Gesture(splitters.v)' = Gesture(splitters.v)]_vars

\* the horizontal splitter is being dragged after a drag of the vertical
\* splitter has resized the left pane
C25_Witness ==
    /\ splitters.h.dragging
    /\ last.op = "h_mouse_move"
    /\ splitters.h.size # splitters.h.start_size
    /\ splitters.v.assigned
    /\ ~splitters.v.dragging

----------------------------------------------------------------------------
(* C26: pointer capture and the dragging state.                            *)

\* the splitter holds the pointer exactly when it is dragging
CaptureIffDragging ==
    /\ (mouse_capture = "v") <=> splitters.v.dragging
    /\ (mouse_capture = "h") <=> splitters.h.dragging

\* a pointer-down has set both, a pointer-up has left both cleared
DownSetsUpClears ==
    /\ last.op = "v_mouse_down" => (splitters.v.dragging /\ mouse_capture = "v")
    /\ last.op = "h_mouse_down" => (splitters.h.dragging /\ mouse_capture = "h")
    /\ last.op = "v_mouse_up" => (~splitters.v.dragging /\ mouse_capture # "v")
    /\ last.op = "h_mouse_up" => (~splitters.h.dragging /\ mouse_capture # "h")

\* a pointer-up on an idle splitter changes neither capture nor drag state
IdleUpChangesNothing ==
    /\ (last'.op = "v_mouse_up" /\ ~splitters.v.dragging)
           => (splitters' = splitters /\ mouse_capture' = mouse_capture)
    /\ (last'.op = "h_mouse_up" /\ ~splitters.h.dragging)
           => (splitters' = splitters /\ mouse_capture' = mouse_capture)

\* C26: for each splitter, in every reachable state the pointer capture is
\* held if and only if the splitter is dragging: pointer-down sets both,
\* pointer-up while dragging clears both, pointer-up while idle changes
\* neither.
C26_CaptureIffDragging ==
    /\ [](CaptureIffDragging /\ DownSetsUpClears)
    /\ [][IdleUpChangesNothing]_vars

\* the pointer-up that ended a drag which had resized the left pane
C26_Witness ==
    /\ last.op = "v_mouse_up"
    /\ splitters.v.assigned
    /\ ~splitters.v.dragging
    /\ mouse_capture = "none"

\* a pointer-up on the idle horizontal splitter
C26_WitnessIdle ==
    /\ last.op = "h_mouse_up"
    /\ ~splitters.h.assigned
    /\ splitters.h.start = 0
    /\ mouse_capture = "none"

----------------------------------------------------------------------------
(* C27: the size assigned by a move.                                       *)

\* clamp(lo, hi, x); where the bounds cross (hi < lo) the lower bound wins
Clamp(lo, hi, x) ==
    IF x < lo \/ hi < lo THEN lo
    ELSE IF x > hi THEN hi
    ELSE x

\* C27: during a drag the size assigned on each pointer-move equals
\* clamp(min, extent - 10, anchor_size + d) for the vertical splitter and
\* clamp(min, extent - 10, anchor_size - d) for the horizontal one, d being
\* the pointer coordinate minus the anchor coordinate; the anchor is the
\* coordinate and the pane size at pointer-down, so earlier moves of the
\* gesture do not enter the result.
C27_MoveIsAnchored ==
    /\ last.op = "v_mouse_down" =>
           (splitters.v.start = last.x /\ splitters.v.start_size = splitters.v.size)
    /\ last.op = "h_mouse_down" =>
           (splitters.h.start = last.y /\ splitters.h.start_size = splitters.h.size)
    /\ (last.op = "v_mouse_move" /\ splitters.v.dragging) =>
           splitters.v.size =
               Clamp(VMinWidth, splitters.v.extent - ReservedOpposite,
                     splitters.v.start_size + (last.x - splitters.v.start))
    /\ (last.op = "h_mouse_move" /\ splitters.h.dragging) =>
           splitters.h.size =
               Clamp(HMinHeight, splitters.h.extent - ReservedOpposite,
                     splitters.h.start_size - (last.y - splitters.h.start))

\* a move of the vertical splitter back to the anchor coordinate, after an
\* earlier move of the same gesture had changed the width
C27_Witness ==
    /\ last.op = "v_mouse_move"
    /\ splitters.v.dragging
    /\ splitters.v.assigned
    /\ last.x = splitters.v.start
    /\ splitters.v.size = splitters.v.start_size
    /\ splitters.v.start_size # Min(InitialLeftWidth, splitters.v.extent)

\* a move of the horizontal splitter, inside both bounds, that made the
\* pane below smaller
C27_WitnessH ==
    /\ last.op = "h_mouse_move"
    /\ splitters.h.dragging
    /\ last.y > splitters.h.start
    /\ splitters.h.size = splitters.h.start_size - (last.y - splitters.h.start)

----------------------------------------------------------------------------
(* C28: a move on an idle splitter.                                        *)

\* the step is a pointer-move delivered to a splitter that is idle
IdleMove ==
    \/ last'.op = "v_mouse_move" /\ ~splitters.v.dragging
    \/ last'.op = "h_mouse_move" /\ ~splitters.h.dragging

\* C28: a pointer-move delivered to a splitter that is idle, before any
\* pointer-down or after the pointer-up that ended a drag, changes no pane
\* size and no drag state.
C28_IdleMoveChangesNothing ==
    [][IdleMove => (splitters' = splitters /\ mouse_capture' = mouse_capture)]_vars

\* a move away from the anchor reached the vertical splitter after the
\* pointer-up that ended a drag which had resized the pane
C28_Witness ==
    /\ last.op = "v_mouse_move"
    /\ ~splitters.v.dragging
    /\ splitters.v.assigned
    /\ last.x # splitters.v.start
    /\ mouse_capture = "none"

\* a move reached the horizontal splitter before any pointer-down
C28_WitnessFresh ==
    /\ last.op = "h_mouse_move"
    /\ ~splitters.h.dragging
    /\ ~splitters.h.assigned
    /\ splitters.h.start_size = 0
    /\ last.y > 0

----------------------------------------------------------------------------
(* C29: focus() on the panel.                                              *)

FocusCalled == last.op = "panel_focus"

\* C29: focus() on the panel, when the active tab is the pinned shell tab
\* and a shell is present, moves the focus to the shell and never leaves the
\* panel as the focus owner; when any other tab is active the panel takes
\* the focus itself.  The panel's tabs are not touched.
C29_FocusDelegatesToShell ==
    FocusCalled =>
        /\ right_panel = pre.right_panel
        /\ IF pre.right_panel.active = terminal_tab_id /\ pre.right_panel.terminal
           THEN app.focused = "terminal"
           ELSE app.focused = "right_panel"

\* focus() moved the focus from the panel to the shell after the pinned tab
\* had been selected next to a preview
C29_Witness ==
    /\ FocusCalled
    /\ pre.app.focused = "right_panel"
    /\ app.focused = "terminal"
    /\ right_panel.open_files # <<>>

\* focus() with a preview tab active left the focus with the panel
C29_WitnessPreview ==
    /\ FocusCalled
    /\ right_panel.terminal
    /\ right_panel.active \notin {"", terminal_tab_id}
    /\ app.focused = "right_panel"

----------------------------------------------------------------------------
(* C30: the language bound to a newly opened buffer.                       *)

\* the binding table, extension to tag
LanguageTable ==
    { <<".py", "python">>, <<".md", "markdown">>,
      <<".js", "javascript">>, <<".jsx", "javascript">>,
      <<".ts", "typescript">>, <<".tsx", "typescript">>,
      <<".json", "json">>, <<".html", "html">>, <<".htm", "html">>,
      <<".css", "css">>, <<".toml", "toml">> }

\* the tag the table gives an extension; "none" is plain text
TableTag(suffix) ==
    IF \E e \in LanguageTable : e[1] = suffix
    THEN (CHOOSE e \in LanguageTable : e[1] = suffix)[2]
    ELSE "none"

\* open(path) created a buffer
BufferOpened ==
    /\ last.op = "add_file_tab"
    /\ ~last.raised
    /\ last.ret \notin PaneIds(pre.editor.panes)

\* C30: the language tag bound to a newly opened buffer is the table's tag
\* for the path's extension, plain text for every extension outside the
\* table, whatever was open before; the buffers already open keep theirs.
C30_LanguageIsTableOfExtension ==
    /\ BufferOpened =>
          editor.panes[PaneIndex(editor.panes, last.ret)].language
              = TableTag(last.path.suffix)
    /\ \A i \in 1..Len(editor.panes) :
          editor.panes[i].language
              = TableTag(DictGet(editor.open_files, editor.panes[i].id).suffix)

\* a .tsx buffer was opened next to another buffer and bound to typescript
C30_Witness ==
    /\ BufferOpened
    /\ last.path.suffix = ".tsx"
    /\ Len(pre.editor.panes) > 0
    /\ editor.panes[PaneIndex(editor.panes, last.ret)].language = "typescript"

\* an upper-case .MD buffer was opened as plain text
C30_WitnessOther ==
    /\ BufferOpened
    /\ last.path.suffix = ".MD"
    /\ editor.panes[PaneIndex(editor.panes, last.ret)].language = "none"

----------------------------------------------------------------------------
(* C31: creating a tab for a path that is not open.                        *)

\* open(path) was called for a path without an editor tab
EditorCreateCalled ==
    /\ last.op = "add_file_tab"
    /\ FindPath(pre.editor.open_files, last.path) = ""

\* add_or_update_markdown(path, content) was called for a path without a
\* preview tab
PreviewCreateCalled ==
    /\ last.op = "add_markdown_tab"
    /\ FindPath(pre.right_panel.open_files, last.path) = ""

\* the mapping after is the mapping before plus one binding under an id
\* that no open tab had
GrownByOne(before, after, before_panes) ==
    /\ Len(after) = Len(before) + 1
    /\ \A i \in 1..Len(before) :
          DictHas(after, before[i].id) /\ DictGet(after, before[i].id) = before[i].path
    /\ DictKeys(after) \ DictKeys(before) # {}
    /\ (DictKeys(after) \ DictKeys(before)) \cap PaneIds(before_panes) = {}

\* C31 (as claimed): in both panels, creating a tab for a path that is not
\* open increases the number of open tabs by exactly one, leaves every
\* existing tab_id -> path binding unchanged, and the new id is not the id of
\* a tab that is still open, after any sequence of opens and closes.
C31_CreateAddsOne ==
    /\ EditorCreateCalled =>
          GrownByOne(pre.editor.open_files, editor.open_files, pre.editor.panes)
    /\ PreviewCreateCalled =>
          GrownByOne(pre.right_panel.open_files, right_panel.open_files,
                     pre.right_panel.panes)

----------------------------------------------------------------------------
(* C32: no preview outlives its editor tab.                                *)

\* C32: in every state reached through file selections, saves, editor
\* closes and closes in the panel, every preview tab of the panel is bound
\* to a path that is open in an editor tab.
C32_NoOrphanedPreview ==
    DictValues(right_panel.open_files) \subseteq DictValues(editor.open_files)

\* the editor tab of one markdown file was closed from the binding while
\* the preview of another file stayed open next to its editor tab
C32_Witness ==
    /\ last.op = "action_close_tab"
    /\ last.ok
    /\ IsMarkdown(last.path)
    /\ last.path \in DictValues(pre.right_panel.open_files)
    /\ last.path \notin DictValues(right_panel.open_files)
    /\ right_panel.open_files # <<>>

\* a preview was closed in the panel and its editor tab stayed open
C32_WitnessPanelClose ==
    /\ last.op \in {"panel_on_key", "panel_on_mouse_down", "close_active_tab"}
    /\ Len(right_panel.open_files) < Len(pre.right_panel.open_files)
    /\ editor.open_files = pre.editor.open_files
    /\ editor.open_files # <<>>

----------------------------------------------------------------------------
(* C33: which tab a secondary-button press closes.                         *)

\* the first column of the i-th title when the titles of the given widths
\* are laid out left to right from column 0
RECURSIVE TitleStart(_, _)
TitleStart(widths, i) ==
    IF i = 1 THEN 0 ELSE TitleStart(widths, i - 1) + widths[i - 1]

\* the titles whose half-open interval holds column x, the layout starting
\* at column offset
HitSet(widths, offset, x) ==
    { i \in 1..Len(widths) :
        /\ offset + TitleStart(widths, i) <= x
        /\ x < offset + TitleStart(widths, i) + widths[i] }

EditorPressed == last.op = "editor_on_mouse_down" /\ last.button = 3

PanelPressed == last.op = "panel_on_mouse_down" /\ last.button = 3

\* the entries of the editor's mapping under the press
EditorHit ==
    LET before == pre.editor.open_files
        widths == [i \in 1..Len(before) |-> Len(Name(before[i].path)) + 4]
    IN IF last.y = 0 THEN HitSet(widths, 0, last.x) ELSE {}

\* the width of the pinned title in the panel's header row
PinnedWidth == IF pre.right_panel.terminal THEN Len(TerminalTitle) + 4 ELSE 0

\* the press is on the pinned title
PinnedHit == last.y = 0 /\ 0 <= last.x /\ last.x < PinnedWidth

\* the entries of the panel's mapping under the press
PanelHit ==
    LET before == pre.right_panel.open_files
        widths == [i \in 1..Len(before) |-> Len(Name(before[i].path)) + 2 + 4]
    IN IF last.y = 0 THEN HitSet(widths, PinnedWidth, last.x) ELSE {}

\* C33: a secondary-button press at header row y = 0 and column x closes,
\* in the widget pressed, at most one tab: the tab whose interval
\* [start, start + len(title) + 4) holds x, the intervals laid out left to
\* right in insertion order; in the panel the pinned title comes first and a
\* hit on it closes nothing and only notifies.  A press with y # 0 or
\* beyond the last interval closes nothing.
C33_PressClosesTabUnderPointer ==
    /\ EditorPressed =>
          /\ Cardinality(EditorHit) <= 1
          /\ EditorHit = {} => editor = pre.editor /\ right_panel = pre.right_panel
          /\ \A i \in EditorHit :
                LET id == pre.editor.open_files[i].id
                IN /\ editor.open_files = DictDel(pre.editor.open_files, id)
                   /\ PaneIds(editor.panes) = PaneIds(pre.editor.panes) \ {id}
    /\ PanelPressed =>
          /\ editor = pre.editor
          /\ Cardinality(PanelHit) <= 1
          /\ PinnedHit =>
                /\ PanelHit = {}
                /\ right_panel = pre.right_panel
                /\ last.notes = << "Terminal tab cannot be closed" >>
          /\ (PanelHit = {} /\ ~PinnedHit) =>
                right_panel = pre.right_panel /\ last.notes = <<>>
          /\ \A i \in PanelHit :
                LET id == pre.right_panel.open_files[i].id
                IN /\ right_panel.open_files = DictDel(pre.right_panel.open_files, id)
                   /\ PaneIds(right_panel.panes) = PaneIds(pre.right_panel.panes) \ {id}

\* a press inside the second preview title, past its first column, closed
\* that preview and left the first one and the pinned tab
C33_Witness ==
    /\ PanelPressed
    /\ Len(pre.right_panel.open_files) = 2
    /\ PanelHit = {2}
    /\ last.x > PinnedWidth + TitleStart(<<10, 10>>, 2)
    /\ Len(right_panel.open_files) = 1
    /\ terminal_tab_id \in PaneIds(right_panel.panes)

\* a press on the last column of the first editor title closed the first
\* of two editor tabs
C33_WitnessEditor ==
    /\ EditorPressed
    /\ Len(pre.editor.open_files) = 2
    /\ EditorHit = {1}
    /\ 1 \notin (LET before == pre.editor.open_files
                     widths == [i \in 1..Len(before) |-> Len(Name(before[i].path)) + 4]
                 IN HitSet(widths, 0, last.x + 1))
    /\ Len(editor.open_files) = 1

\* a press on the pinned title, and a press beyond the last title
C33_WitnessPinned ==
    /\ PanelPressed
    /\ PinnedHit
    /\ pre.right_panel.open_files # <<>>

C33_WitnessBeyond ==
    /\ PanelPressed
    /\ last.y = 0
    /\ ~PinnedHit
    /\ PanelHit = {}
    /\ pre.right_panel.open_files # <<>>

----------------------------------------------------------------------------
(* C34: keystrokes of the focused shell and the outbound queue.            *)

\* the running, focused shell was sent a key that is neither bound by the
\* application nor ctrl+f1 and that has a character
QueuedKey ==
    /\ last.op = "terminal_on_key"
    /\ EmulatorOf(pre.app)
    /\ pre.app.focused = "terminal"
    /\ last.key \notin APP_KEYBINDINGS \cup {"ctrl+f1"}
    /\ KeyChar(last.key) # ""

C34_WitnessAfterConsume ==
    /\ last.op = "shell_consumes"
    /\ Len(pre.app.send_queue) = 2
    /\ pre.app.send_queue[1] # pre.app.send_queue[2]
    /\ app.send_queue = << pre.app.send_queue[2] >>

====
